---- MODULE Spec2Model ----
(***************************************************************************)
(* A model of the au_test_harness and of what it calls:                    *)
(*                                                                         *)
(*   - parallel_test_job.py: RunParallelJobs, a semaphore-gated pool of    *)
(*     ParallelJob processes with a monitor loop and a batch timeout;      *)
(*   - cros_test_proxy.py: CrosTestProxy, a threaded TCP relay whose       *)
(*     serve_forever loop is started and stopped from another thread, its  *)
(*     connection handlers and the filters of au_test.py;                  *)
(*   - gce_au_worker.py: UpdateImage, _HandleFail and CleanUp of the       *)
(*     GCEAUWorker and the resources they create and delete;               *)
(*   - lib/dev_server_wrapper.py: GenerateUpdateId and UpdatePayload;      *)
(*   - vm_au_worker.py, real_au_worker.py: UpdateImage, PrepareBase,       *)
(*     CleanUp and VerifyImage of the workers;                             *)
(*   - cros_generate_test_payloads.py: the generation of the update cache; *)
(*   - au_worker.py: AssertEnoughTestsPassed, the report parser,           *)
(*     PerformUpdate and GetNextResultsPath;                               *)
(*   - cros_au_test_harness.py: _RunTestsInParallel;                       *)
(*   - lib/gce.py: _WaitForOperation;                                      *)
(*   - lib/image_extractor.py: GetLatestImage and UnzipImage.              *)
(*                                                                         *)
(* Each component has its own variables, next-state relation and           *)
(* specification; the variables of the other components stay at their      *)
(* idle values.                                                            *)
(***************************************************************************)
EXTENDS Integers, Sequences, FiniteSets

\* ------------------------------------------------------------------ bounds
\* Largest batch handed to RunParallelJobs.
MaxJobs == 3
\* Largest number_of_simultaneous_jobs.
MaxSimul == 2
\* Most client connections that reach the proxy's listening socket.
MaxConn == 2
\* Most chunks a client sends through one connection (its request).
MaxRequest == 1
\* Most chunks the server sends through one connection (the payload).
MaxPayload == 1
\* Most UpdateImage calls made on one cloud worker.
MaxCalls == 2
\* Most test targets of a cloud worker.
MaxTests == 2
\* Most lines the update command prints.
MaxLines == 2
\* Most payloads a run generates.
MaxUpdates == 2
\* Most lines a devserver log has.
MaxLogLines == 1
\* Most VM workers that run in parallel.
MaxWorkers == 2
\* Most PrepareBase calls of all VM workers together.
MaxPrepares == 2
\* Most tests of the suite _RunTestsInParallel runs.
MaxSuite == 2
\* Most calls of _IsDone before the timeout of _WaitForOperation is up.
MaxPolls == 3
\* Most calls of Initialize and GetNextResultsPath on one worker.
MaxPathCalls == 5

\* The greatest last number of the versions of the archive's entries.
MaxVersion == 1

\* The greatest build number of the entries.
MaxBuild == 0

\* The most entries an archive directory holds.
MaxEntries == 3

\* ---------------------------------------------------------------- constants
\* The sentinel ProcessOutputWrapper posts when the job's function raises.
NoneValue == -1
\* InterruptionFilter closes the first CloseLimit connections (au_test.py
\* line 154).
CloseLimit == 3
\* The outbound size after which InterruptionFilter closes a connection
\* (au_test.py line 155: 2M), counted in chunks of the size the relay reads
\* at a time and scaled to 2 chunks.
Threshold == 2

VARIABLES
  \* ---- RunParallelJobs (parallel_test_job.py)
  number_of_simultaneous_jobs, \* argument: the size of the pool
  jobs,                 \* argument: per job, what its function does when run
  jobs_args,            \* argument: only its length matters
  mainpc,               \* where the caller of RunParallelJobs is
  idx,                  \* index of the for loops of lines 140, 81 and 145
  job_start_semaphore,  \* value of the multiprocessing.Semaphore
  parallel_jobs,        \* per job, the state of its process
  output_array,         \* per job, the content of its multiprocessing.Queue
  releases,             \* per job, how often it released the semaphore
  raised,               \* per job, whether its function raised
  clock_started,        \* start_time of line 69 has been taken
  expired,              \* time.time() - start_time >= MAX_TIMEOUT_SECONDS
  active_job,           \* second component returned by GetCurrentActiveCount
  results,              \* the list RunParallelJobs returns
  finished,             \* history: the jobs in the order they posted output
  \* ---- CrosTestProxy (cros_test_proxy.py) driven by AttemptUpdateWithFilter
  callerpc,             \* where AttemptUpdateWithFilter is
  srvpc,                \* where the thread running serve_forever is
  serving,              \* self.__serving
  is_started,           \* self.__is_started (threading.Event)
  is_shut_down,         \* self.__is_shut_down (threading.Event)
  port_bound,           \* the listening socket of the proxy holds port_in
  port_taken,           \* port_in is held by somebody else
  backlog,              \* connections made by clients, not yet accepted
  accepted,             \* connections accepted by _handle_request_noblock
  clients,              \* connections clients have attempted so far
  rebind,               \* outcome of constructing a second proxy on port_in
  update_raised         \* PerformUpdate has left by an exception

jobvars == <<number_of_simultaneous_jobs, jobs, jobs_args, mainpc, idx,
             job_start_semaphore, parallel_jobs, output_array, releases,
             raised, clock_started, expired, active_job, results,
             finished>>

proxyvars == <<callerpc, srvpc, serving, is_started, is_shut_down, port_bound,
               port_taken, backlog, accepted, clients, rebind,
               update_raised>>

VARIABLES
  filter_kind,          \* the Filter subclass given to the proxy
  hpc,                  \* per connection, where its _Handler thread is
  in_left,              \* per connection, chunks the client has yet to send
  out_left,             \* per connection, chunks the server has yet to send
  data,                 \* per connection, the value of the local variable data
  fwd_in,               \* per connection, chunks sent on to the server
  fwd_out,              \* per connection, chunks sent on to the client
  vetoed,               \* per connection, a filter call returned None
  open_socks,           \* per connection, which of s_in and s_out are open
  close_count,          \* InterruptionFilter.close_count
  data_size             \* InterruptionFilter.data_size

relayvars == <<filter_kind, hpc, in_left, out_left, data, fwd_in, fwd_out,
                vetoed, open_socks, close_count, data_size>>

VARIABLES
  gpc,                  \* where the worker is in UpdateImage or CleanUp
  gcalls,               \* UpdateImage calls made so far
  tests,                \* self.tests, the number of test targets
  gnow,                 \* time.time() in whole seconds
  ts,                   \* the timestamp _CreateImage names its tarball and image with
  tarball_remote,       \* self.tarball_remote (0 is None)
  image,                \* self.image (0 is None)
  instances,            \* self.instances, test target -> instance name
  bg_delete_processes,  \* self.bg_delete_processes
  procs,                \* every background process started, with its copy of the worker
  gcs,                  \* tarballs that exist in the bucket
  images,               \* images that exist in the project
  vms,                  \* instances that exist in the project
  pending,              \* image insertions the worker stopped waiting for
  tracked_before,       \* what the worker tracked when the call was made
  made,                 \* what the call in progress or last made has created
  made_earlier,         \* what the calls before it created
  delete_attempts       \* how many DeleteInstance calls each instance name has had

gcevars == <<gpc, gcalls, tests, gnow, ts, tarball_remote, image, instances,
              bg_delete_processes, procs, gcs, images, vms,
              pending, tracked_before, made, made_earlier,
              delete_attempts>>

VARIABLES
  idpc,                 \* whether the identifiers of the two updates have been generated
  first,                    \* one update: target, base, key, for_vm
  second,                    \* another update
  update_id,            \* the value of GenerateUpdateId for each
  payload_str           \* the value of UpdatePayload.__str__ for each

idvars == <<idpc, first, second, update_id, payload_str>>

VARIABLES
  wpc,                  \* where the worker is in UpdateImage or UpdateUsingPayload
  worker_class,         \* VMAUWorker or RealAUWorker
  method,               \* the method called
  update,               \* image_path, src_image_path and private_key_path of the call
  proxy_port,           \* the proxy_port argument (0 is None)
  update_cache,         \* AUWorker.update_cache
  update_url,           \* the --update_url appended to cmd, if any
  cmd_ran,              \* the update command has been run
  tool_output,          \* result.output of the update command
  returncode,           \* result.returncode
  err,                  \* the exception that left the call, if any
  fail_directory,       \* what has been copied to fail_directory
  use_delta_updates,    \* self.use_delta_updates
  src_image_path,       \* the src_image_path given to PerformUpdate
  looked_up             \* the update id given to update_cache.get, if any

updvars == <<wpc, worker_class, method, update, proxy_port, update_cache,
              update_url, cmd_ran, tool_output, returncode, err,
              fail_directory,
             use_delta_updates, src_image_path, looked_up>>

VARIABLES
  genpc,                \* where main is in GeneratePayloads and DumpCacheToDisk
  payloads,             \* self.payloads in the order the two loops iterate it
  suite,                \* self.basic_suite or self.full_suite
  nplus1_archive_dir,   \* whether self.nplus1_archive_dir is set
  job_failed,           \* the payloads whose GeneratePayload raised
  log_files,            \* the text of every log file
  path_results,         \* results, what ProcessOutput returned
  index,                \* index of the loop of line 340
  cache_dictionary,     \* cache_dictionary of GeneratePayloads
  cache,                \* cache of main, <<>> until GeneratePayloads returns
  cache_file,           \* what the cache file holds, <<>> while it is not written
  gen_err               \* the exception that left GeneratePayloads

genvars == <<genpc, payloads, suite, nplus1_archive_dir, job_failed,
              log_files, path_results, index, cache_dictionary,
              cache, cache_file, gen_err>>

VARIABLES
  vpc,                  \* where the worker is in VerifyImage
  verifier,             \* the class of the worker that verifies
  verify_tests,         \* how many tests self.tests of a GCEAUWorker holds
  test_output,          \* output, the lines of the test report
  percent_required_to_pass,\* the percentage required to pass
  percent_passed,       \* what _ParseGenerateTestReportOutput returned, <<>> before it
  returned_percent,     \* what AssertEnoughTestsPassed returned, <<>> if nothing
  verified,             \* the truth value VerifyImage returned, <<>> if none
  verify_err            \* the exception that left VerifyImage

vfyvars == <<vpc, verifier, verify_tests, test_output,
              percent_required_to_pass, percent_passed, returned_percent,
              verified, verify_err>>

VARIABLES
  vmpc,                 \* where each VMAUWorker is in its scenario
  vm_image_path,        \* self.vm_image_path of each worker
  original_image_path,  \* what PrepareBase returned to each scenario
  used_image_paths,     \* the image paths each worker gave to its update and test commands
  kvm_pid_file,         \* whether the file self._kvm_pid_file of each worker exists
  tmp_count             \* how many names tempfile.mkstemp has given for disk images

vmvars == <<vmpc, vm_image_path, original_image_path, used_image_paths,
             kvm_pid_file, tmp_count>>

VARIABLES
  harnesspc,            \* where _RunTestsInParallel is
  was_successful        \* per test, what wasSuccessful() of its result says

harnessvars == <<harnesspc, was_successful>>

VARIABLES
  waitpc,               \* where _WaitForOperation is
  timeout_handler,      \* the timeout_handler argument
  op_status,            \* the status of the GCE operation
  polls,                \* calls of _IsDone made so far
  handler_called,       \* timeout_handler() has been called
  wait_result           \* how _WaitForOperation ended

waitvars == <<waitpc, timeout_handler, op_status, polls, handler_called,
               wait_result>>

VARIABLES
  test_name,            \* self.test_name, the test that called Initialize
  results_count,        \* self.results_count
  returned_paths,       \* what GetNextResultsPath has returned since Initialize
  made_dirs,            \* the directories os.makedirs has made
  path_calls            \* calls of Initialize and GetNextResultsPath so far

resvars == <<test_name, results_count, returned_paths, made_dirs, path_calls>>

VARIABLES
  imgpc,                \* where GetLatestImage is
  archive_exists,       \* os.path.exists(self.archive)
  archive,              \* the entries of the archive directory, each with the state of its image.zip
  target_version,       \* the version under test
  filelist,             \* the versions GetLatestImage has kept
  latest_image          \* what GetLatestImage returns

imgvars == <<imgpc, archive_exists, archive, target_version, filelist,
              latest_image>>

VARIABLES
  unzippc,              \* where UnzipImage is
  image_dir,            \* the entry of the archive to unzip
  zip_content,          \* what image_dir/image.zip is
  src_archive_exists,   \* os.path.exists(SRC_ARCHIVE_DIR)
  cached_images,        \* the version directories under SRC_ARCHIVE_DIR, each with whether it holds the image
  image_returned        \* what UnzipImage returns

unzipvars == <<unzippc, image_dir, zip_content, src_archive_exists,
                cached_images, image_returned>>

nonjobvars == <<proxyvars, relayvars, gcevars, idvars, updvars, genvars,
                 vfyvars, vmvars, harnessvars, waitvars,
                 resvars, imgvars, unzipvars>>

nonproxyvars == <<jobvars, relayvars, gcevars, idvars, updvars, genvars,
                   vfyvars, vmvars, harnessvars, waitvars,
                   resvars, imgvars, unzipvars>>

nonrelayvars == <<jobvars, proxyvars, gcevars, idvars, updvars, genvars,
                   vfyvars, vmvars, harnessvars, waitvars,
                   resvars, imgvars, unzipvars>>

nongcevars == <<jobvars, proxyvars, relayvars, idvars, updvars, genvars,
                 vfyvars, vmvars, harnessvars, waitvars,
                 resvars, imgvars, unzipvars>>

nonidvars == <<jobvars, proxyvars, relayvars, gcevars, updvars, genvars,
                vfyvars, vmvars, harnessvars, waitvars,
                resvars, imgvars, unzipvars>>

nonupdvars == <<jobvars, proxyvars, relayvars, gcevars, idvars, genvars,
                 vfyvars, vmvars, harnessvars, waitvars,
                 resvars, imgvars, unzipvars>>

nongenvars == <<jobvars, proxyvars, relayvars, gcevars, idvars, updvars,
                 vfyvars, vmvars, harnessvars, waitvars,
                 resvars, imgvars, unzipvars>>

nonvfyvars == <<jobvars, proxyvars, relayvars, gcevars, idvars, updvars,
                 genvars, vmvars, harnessvars, waitvars,
                 resvars, imgvars, unzipvars>>

nonvmvars == <<jobvars, proxyvars, relayvars, gcevars, idvars, updvars,
                genvars, vfyvars, harnessvars, waitvars,
                resvars, imgvars, unzipvars>>

nonharnessvars == <<jobvars, proxyvars, relayvars, gcevars, idvars, updvars,
                     genvars, vfyvars, vmvars, waitvars,
                     resvars, imgvars, unzipvars>>

nonwaitvars == <<jobvars, proxyvars, relayvars, gcevars, idvars, updvars,
                  genvars, vfyvars, vmvars, harnessvars,
                  resvars, imgvars, unzipvars>>

nonresvars == <<jobvars, proxyvars, relayvars, gcevars, idvars, updvars,
                 genvars, vfyvars, vmvars, harnessvars,
                 waitvars, imgvars, unzipvars>>

nonimgvars == <<jobvars, proxyvars, relayvars, gcevars, idvars, updvars,
                 genvars, vfyvars, vmvars, harnessvars,
                 waitvars, resvars, unzipvars>>

nonunzipvars == <<jobvars, proxyvars, relayvars, gcevars, idvars, updvars,
                   genvars, vfyvars, vmvars, harnessvars,
                   waitvars, resvars, imgvars>>

vars == <<jobvars, proxyvars, relayvars, gcevars, idvars, updvars,
          genvars, vfyvars, vmvars, harnessvars, waitvars,
          resvars, imgvars, unzipvars>>

\* ---- end of the state
\* =========================================================================
\*                     parallel_test_job.py
\* =========================================================================

\* What a job's function can do when it is run: return a value, raise, or
\* never terminate.
JobKinds == {"ret", "raise", "hang"}

\* The indices of the batch.
JobIds == 1..Len(jobs)

\* The value jobs[j](*jobs_args[j]) returns; distinct per job, so that the
\* order of the result list is observable.
JobResult(j) == j

\* multiprocessing.Process.is_alive(): started and not yet exited or killed.
is_alive(j) == parallel_jobs[j] \in {"target", "wrapped", "released"}

\* The state RunParallelJobs is entered in (lines 92-106): its arguments are
\* drawn from the bounded sets, nothing is created yet.
JobsInit ==
  /\ number_of_simultaneous_jobs \in 1..MaxSimul
  /\ \E n \in 0..MaxJobs : jobs \in [1..n -> JobKinds]
  /\ jobs_args \in {Len(jobs), Len(jobs) + 1}
  /\ mainpc = "assert"
  /\ idx = 0
  /\ job_start_semaphore = 0
  /\ parallel_jobs = <<>>
  /\ output_array = <<>>
  /\ releases = <<>>
  /\ raised = <<>>
  /\ clock_started = FALSE
  /\ expired = FALSE
  /\ active_job = 0
  /\ results = <<>>
  /\ finished = <<>>

\* RunParallelJobs without the assert of line 117.
AssertNothing ==
  /\ mainpc = "assert"
  /\ mainpc' = "create"
  /\ UNCHANGED <<number_of_simultaneous_jobs, jobs, jobs_args, idx,
                 job_start_semaphore, parallel_jobs, output_array, releases,
                 raised, clock_started, expired, active_job, results>>
  /\ UNCHANGED finished
  /\ UNCHANGED nonjobvars

\* Line 117: the assert on the two lengths.
AssertLengths ==
  /\ mainpc = "assert"
  /\ mainpc' = IF Len(jobs) = jobs_args THEN "create" ELSE "assert_failed"
  /\ UNCHANGED <<number_of_simultaneous_jobs, jobs, jobs_args, idx,
                 job_start_semaphore, parallel_jobs, output_array, releases,
                 raised, clock_started, expired, active_job, results>>
  /\ UNCHANGED finished
  /\ UNCHANGED nonjobvars

\* Lines 123-136: the semaphore, and one ParallelJob and one Queue per job.
CreateJobs ==
  /\ mainpc = "create"
  /\ job_start_semaphore' = number_of_simultaneous_jobs
  /\ parallel_jobs' = [j \in JobIds |-> "created"]
  /\ output_array' = [j \in JobIds |-> <<>>]
  /\ releases' = [j \in JobIds |-> 0]
  /\ raised' = [j \in JobIds |-> FALSE]
  /\ idx' = 1
  /\ mainpc' = IF Len(jobs) = 0 THEN "wait" ELSE "acquire"
  /\ UNCHANGED <<number_of_simultaneous_jobs, jobs, jobs_args, clock_started,
                 expired, active_job, results>>
  /\ UNCHANGED finished
  /\ UNCHANGED nonjobvars

\* AcquirePermit as it would be with acquire(block=False): the caller goes on
\* whether or not a permit was free.
AcquirePermitNoWait ==
  /\ mainpc = "acquire"
  /\ job_start_semaphore' = IF job_start_semaphore > 0
                              THEN job_start_semaphore - 1
                              ELSE job_start_semaphore
  /\ mainpc' = "start"
  /\ UNCHANGED <<number_of_simultaneous_jobs, jobs, jobs_args, idx,
                 parallel_jobs, output_array, releases, raised, clock_started,
                 expired, active_job, results, finished>>
  /\ UNCHANGED nonjobvars

\* Line 141: job_start_semaphore.acquire(block=True).
AcquirePermit ==
  /\ mainpc = "acquire"
  /\ job_start_semaphore > 0
  /\ job_start_semaphore' = job_start_semaphore - 1
  /\ mainpc' = "start"
  /\ UNCHANGED <<number_of_simultaneous_jobs, jobs, jobs_args, idx,
                 parallel_jobs, output_array, releases, raised, clock_started,
                 expired, active_job, results>>
  /\ UNCHANGED finished
  /\ UNCHANGED nonjobvars

\* Line 142: next_parallel_job.start(), and the loop header of line 140.
StartJob ==
  /\ mainpc = "start"
  /\ parallel_jobs' = [parallel_jobs EXCEPT ![idx] = "target"]
  /\ idx' = idx + 1
  /\ mainpc' = IF idx = Len(jobs) THEN "wait" ELSE "acquire"
  /\ UNCHANGED <<number_of_simultaneous_jobs, jobs, jobs_args,
                 job_start_semaphore, output_array, releases, raised,
                 clock_started, expired, active_job, results>>
  /\ UNCHANGED finished
  /\ UNCHANGED nonjobvars

\* ProcessOutputWrapper as it would be without the except clause of lines
\* 111-113: nothing is posted when the function raises.
ProcessOutputWrapperNoSentinel(j) ==
  /\ parallel_jobs[j] = "target"
  /\ \/ /\ jobs[j] = "ret"
        /\ output_array' = [output_array EXCEPT ![j] = Append(@, JobResult(j))]
        /\ raised' = raised
     \/ /\ jobs[j] = "raise"
        /\ output_array' = output_array
        /\ raised' = [raised EXCEPT ![j] = TRUE]
  /\ parallel_jobs' = [parallel_jobs EXCEPT ![j] = "wrapped"]
  /\ finished' = Append(finished, j)
  /\ UNCHANGED <<number_of_simultaneous_jobs, jobs, jobs_args, mainpc, idx,
                 job_start_semaphore, releases, clock_started, expired,
                 active_job, results>>
  /\ UNCHANGED nonjobvars

\* Lines 107-115, run in the job's process as the target of ParallelJob.run
\* (line 43): the value of the function is put on the job's queue, or None
\* when the function raises; the exception is then raised again.  A function
\* that never terminates stays in "target".
ProcessOutputWrapper(j) ==
  /\ parallel_jobs[j] = "target"
  /\ \/ /\ jobs[j] = "ret"
        /\ output_array' = [output_array EXCEPT ![j] = Append(@, JobResult(j))]
        /\ raised' = raised
     \/ /\ jobs[j] = "raise"
        /\ output_array' = [output_array EXCEPT ![j] = Append(@, NoneValue)]
        /\ raised' = [raised EXCEPT ![j] = TRUE]
  /\ parallel_jobs' = [parallel_jobs EXCEPT ![j] = "wrapped"]
  /\ finished' = Append(finished, j)
  /\ UNCHANGED <<number_of_simultaneous_jobs, jobs, jobs_args, mainpc, idx,
                 job_start_semaphore, releases, clock_started, expired,
                 active_job, results>>
  /\ UNCHANGED nonjobvars

\* ReleasePermit as it would be with the release after the call instead of in
\* a finally block: a job whose target raised keeps its permit.
ReleasePermitOnSuccess(j) ==
  /\ parallel_jobs[j] = "wrapped"
  /\ job_start_semaphore' = IF raised[j] THEN job_start_semaphore
                                         ELSE job_start_semaphore + 1
  /\ releases' = IF raised[j] THEN releases
                              ELSE [releases EXCEPT ![j] = @ + 1]
  /\ parallel_jobs' = [parallel_jobs EXCEPT ![j] = "released"]
  /\ UNCHANGED <<number_of_simultaneous_jobs, jobs, jobs_args, mainpc, idx,
                 output_array, raised, clock_started, expired, active_job,
                 results, finished>>
  /\ UNCHANGED nonjobvars

\* Lines 44-45: the finally block of ParallelJob.run releases the semaphore,
\* whether the target returned or raised.  The process is still alive.
ReleasePermit(j) ==
  /\ parallel_jobs[j] = "wrapped"
  /\ job_start_semaphore' = job_start_semaphore + 1
  /\ releases' = [releases EXCEPT ![j] = @ + 1]
  /\ parallel_jobs' = [parallel_jobs EXCEPT ![j] = "released"]
  /\ UNCHANGED <<number_of_simultaneous_jobs, jobs, jobs_args, mainpc, idx,
                 output_array, raised, clock_started, expired, active_job,
                 results>>
  /\ UNCHANGED finished
  /\ UNCHANGED nonjobvars

\* After run() (line 40) has returned or raised, the process winds down and
\* exits; is_alive() is true until then.  The posted value is taken to fit
\* the queue's pipe (see the note of lines 95-97), so the exit is not held up.
ProcessExit(j) ==
  /\ parallel_jobs[j] = "released"
  /\ parallel_jobs' = [parallel_jobs EXCEPT ![j] = "exited"]
  /\ UNCHANGED <<number_of_simultaneous_jobs, jobs, jobs_args, mainpc, idx,
                 job_start_semaphore, output_array, releases, raised,
                 clock_started, expired, active_job, results>>
  /\ UNCHANGED finished
  /\ UNCHANGED nonjobvars

\* Line 69: start_time = time.time(), on entry of WaitUntilJobsComplete
\* (called on line 144, after the loop of lines 140-142).
TakeStartTime ==
  /\ mainpc = "wait"
  /\ clock_started' = TRUE
  /\ mainpc' = "loop"
  /\ UNCHANGED <<number_of_simultaneous_jobs, jobs, jobs_args, idx,
                 job_start_semaphore, parallel_jobs, output_array, releases,
                 raised, expired, active_job, results>>
  /\ UNCHANGED finished
  /\ UNCHANGED nonjobvars

\* The wall clock: MAX_TIMEOUT_SECONDS (line 21) have passed since start_time.
\* Time is kept as this one fact, the only one the code reads (line 70); it
\* can become true at any moment once start_time is taken, and is recorded
\* while the monitor loop, its only reader, is running.
Tick ==
  /\ clock_started
  /\ ~expired
  /\ mainpc \in {"loop", "count", "join"}
  /\ expired' = TRUE
  /\ UNCHANGED <<number_of_simultaneous_jobs, jobs, jobs_args, mainpc, idx,
                 job_start_semaphore, parallel_jobs, output_array, releases,
                 raised, clock_started, active_job, results>>
  /\ UNCHANGED finished
  /\ UNCHANGED nonjobvars

\* Line 70: the test of the while loop.
LoopTest ==
  /\ mainpc = "loop"
  /\ IF expired THEN mainpc' = "kill" /\ idx' = 1
                ELSE mainpc' = "count" /\ idx' = idx
  /\ UNCHANGED <<number_of_simultaneous_jobs, jobs, jobs_args,
                 job_start_semaphore, parallel_jobs, output_array, releases,
                 raised, clock_started, expired, active_job, results>>
  /\ UNCHANGED finished
  /\ UNCHANGED nonjobvars

\* Lines 59-67: the count of the jobs that are alive.
ActiveCount == Cardinality({j \in JobIds : is_alive(j)})

\* Line 67: the job returned with the count is parallel_job, the loop
\* variable, which is the last job of the list after the loop.
ActiveJob == Len(jobs)

\* Lines 71-73 with GetCurrentActiveCount (lines 57-67).  For an empty list
\* the loop variable parallel_job of line 67 was never bound.
GetCurrentActiveCount ==
  /\ mainpc = "count"
  /\ IF Len(jobs) = 0
       THEN mainpc' = "unbound_error" /\ UNCHANGED <<active_job, idx>>
       ELSE IF ActiveCount = 0
         THEN mainpc' = "collect" /\ idx' = 1 /\ active_job' = ActiveJob
         ELSE mainpc' = "join" /\ idx' = idx /\ active_job' = ActiveJob
  /\ UNCHANGED <<number_of_simultaneous_jobs, jobs, jobs_args,
                 job_start_semaphore, parallel_jobs, output_array, releases,
                 raised, clock_started, expired, results>>
  /\ UNCHANGED finished
  /\ UNCHANGED nonjobvars

\* Lines 78-79: active_job.join(SLEEP_TIMEOUT_SECONDS) returns when the job is
\* dead or the time is up, and time.sleep(5) follows.
JoinAndSleep ==
  /\ mainpc = "join"
  /\ mainpc' = "loop"
  /\ UNCHANGED <<number_of_simultaneous_jobs, jobs, jobs_args, idx,
                 job_start_semaphore, parallel_jobs, output_array, releases,
                 raised, clock_started, expired, active_job, results>>
  /\ UNCHANGED finished
  /\ UNCHANGED nonjobvars

\* TerminateJob as it would be if only the job returned by
\* GetCurrentActiveCount were terminated.
TerminateActiveJobOnly ==
  /\ mainpc = "kill"
  /\ idx <= Len(jobs)
  /\ parallel_jobs' = IF is_alive(idx) /\ idx = active_job
                        THEN [parallel_jobs EXCEPT ![idx] = "terminated"]
                        ELSE parallel_jobs
  /\ idx' = idx + 1
  /\ UNCHANGED <<number_of_simultaneous_jobs, jobs, jobs_args, mainpc,
                 job_start_semaphore, output_array, releases, raised,
                 clock_started, expired, active_job, results, finished>>
  /\ UNCHANGED nonjobvars

\* Lines 81-83: one iteration of the loop that terminates the jobs that are
\* still alive.  A terminated process runs no finally block.
TerminateJob ==
  /\ mainpc = "kill"
  /\ idx <= Len(jobs)
  /\ parallel_jobs' = IF is_alive(idx)
                        THEN [parallel_jobs EXCEPT ![idx] = "terminated"]
                        ELSE parallel_jobs
  /\ idx' = idx + 1
  /\ UNCHANGED <<number_of_simultaneous_jobs, jobs, jobs_args, mainpc,
                 job_start_semaphore, output_array, releases, raised,
                 clock_started, expired, active_job, results>>
  /\ UNCHANGED finished
  /\ UNCHANGED nonjobvars

\* Lines 85-86: raise ParallelJobTimeoutError.
RaiseTimeout ==
  /\ mainpc = "kill"
  /\ idx > Len(jobs)
  /\ mainpc' = "timeout_raised"
  /\ UNCHANGED <<number_of_simultaneous_jobs, jobs, jobs_args, idx,
                 job_start_semaphore, parallel_jobs, output_array, releases,
                 raised, clock_started, expired, active_job, results>>
  /\ UNCHANGED finished
  /\ UNCHANGED nonjobvars

\* GetOutput as it would be with one queue shared by all jobs: the values
\* are read in the order the jobs posted them.
GetOutputInCompletionOrder ==
  /\ mainpc = "collect"
  /\ idx <= Len(jobs)
  /\ output_array[finished[idx]] # <<>>
  /\ results' = Append(results, Head(output_array[finished[idx]]))
  /\ output_array' = [output_array EXCEPT ![finished[idx]] = Tail(@)]
  /\ idx' = idx + 1
  /\ UNCHANGED <<number_of_simultaneous_jobs, jobs, jobs_args, mainpc,
                 job_start_semaphore, parallel_jobs, releases, raised,
                 clock_started, expired, active_job, finished>>
  /\ UNCHANGED nonjobvars

\* Line 145: one output.get() of the list comprehension; it blocks while the
\* queue is empty.
GetOutput ==
  /\ mainpc = "collect"
  /\ idx <= Len(jobs)
  /\ output_array[idx] # <<>>
  /\ results' = Append(results, Head(output_array[idx]))
  /\ output_array' = [output_array EXCEPT ![idx] = Tail(@)]
  /\ idx' = idx + 1
  /\ UNCHANGED <<number_of_simultaneous_jobs, jobs, jobs_args, mainpc,
                 job_start_semaphore, parallel_jobs, releases, raised,
                 clock_started, expired, active_job>>
  /\ UNCHANGED finished
  /\ UNCHANGED nonjobvars

\* Line 145: the list is complete and is returned.
ReturnResults ==
  /\ mainpc = "collect"
  /\ idx > Len(jobs)
  /\ mainpc' = "returned"
  /\ UNCHANGED <<number_of_simultaneous_jobs, jobs, jobs_args, idx,
                 job_start_semaphore, parallel_jobs, output_array, releases,
                 raised, clock_started, expired, active_job, results>>
  /\ UNCHANGED finished
  /\ UNCHANGED nonjobvars

\* The steps of the process that called RunParallelJobs.
MainStep ==
  \/ AssertLengths
  \/ CreateJobs
  \/ AcquirePermit
  \/ StartJob
  \/ TakeStartTime
  \/ LoopTest
  \/ GetCurrentActiveCount
  \/ JoinAndSleep
  \/ TerminateJob
  \/ RaiseTimeout
  \/ GetOutput
  \/ ReturnResults

\* The steps of the job processes.
JobStep ==
  \/ \E j \in DOMAIN parallel_jobs : ProcessOutputWrapper(j)
  \/ \E j \in DOMAIN parallel_jobs : ReleasePermit(j)
  \/ \E j \in DOMAIN parallel_jobs : ProcessExit(j)

JobsNext ==
  \/ MainStep
  \/ JobStep
  \/ Tick

\* =========================================================================
\*                     cros_test_proxy.py
\* =========================================================================

\* The state before AttemptUpdateWithFilter constructs the proxy (au_test.py
\* line 66): nothing is bound by the proxy; port_in is free or already in use.
ProxyInit ==
  /\ callerpc = "init"
  /\ srvpc = "idle"
  /\ serving = FALSE
  /\ is_started = FALSE
  /\ is_shut_down = FALSE
  /\ port_bound = FALSE
  /\ port_taken \in BOOLEAN
  /\ backlog = 0
  /\ accepted = 0
  /\ clients = 0
  /\ rebind = "none"
  /\ update_raised = FALSE

\* A constructor that binds some other port when port_in is taken.
ConstructOnOtherPort ==
  /\ callerpc = "init"
  /\ serving' = FALSE
  /\ is_started' = FALSE
  /\ is_shut_down' = FALSE
  /\ callerpc' = "constructed"
  /\ port_bound' = TRUE
  /\ UNCHANGED <<srvpc, port_taken, backlog, accepted, clients, rebind>>
  /\ UNCHANGED update_raised
  /\ UNCHANGED nonproxyvars

\* CrosTestProxy.__init__ (lines 102-118), called on au_test.py lines 66-69:
\* the events are created unset, __serving is False, and TCPServer.__init__
\* binds port_in and listens; socket.error is raised again when it cannot.
Construct ==
  /\ callerpc = "init"
  /\ serving' = FALSE
  /\ is_started' = FALSE
  /\ is_shut_down' = FALSE
  /\ IF port_taken
       THEN callerpc' = "bind_error" /\ port_bound' = port_bound
       ELSE callerpc' = "constructed" /\ port_bound' = TRUE
  /\ UNCHANGED <<srvpc, port_taken, backlog, accepted, clients, rebind>>
  /\ UNCHANGED update_raised
  /\ UNCHANGED nonproxyvars

\* serve_forever_in_thread, lines 122-124: the thread is started.
StartThread ==
  /\ callerpc = "constructed"
  /\ srvpc = "idle"
  /\ srvpc' = "l143"
  /\ callerpc' = "wait_started"
  /\ UNCHANGED <<serving, is_started, is_shut_down, port_bound, port_taken,
                 backlog, accepted, clients, rebind>>
  /\ UNCHANGED update_raised
  /\ UNCHANGED nonproxyvars

\* serve_forever_in_thread, lines 127-129: self.__is_started.wait(), then the
\* method returns.
WaitStarted ==
  /\ callerpc = "wait_started"
  /\ is_started
  /\ callerpc' = "update"
  /\ UNCHANGED <<srvpc, serving, is_started, is_shut_down, port_bound,
                 port_taken, backlog, accepted, clients, rebind>>
  /\ UNCHANGED update_raised
  /\ UNCHANGED nonproxyvars

\* au_test.py lines 71-73 without the finally clause: an exception of
\* PerformUpdate leaves AttemptUpdateWithFilter at once.
PerformUpdateNoFinally ==
  /\ callerpc = "update"
  /\ \E r \in BOOLEAN :
       /\ update_raised' = r
       /\ callerpc' = IF r THEN "returned" ELSE "shutdown"
  /\ UNCHANGED <<srvpc, serving, is_started, is_shut_down, port_bound,
                 port_taken, backlog, accepted, clients, rebind>>
  /\ UNCHANGED nonproxyvars

\* au_test.py lines 71-74: PerformUpdate returns or raises; either way the
\* finally block is entered.
PerformUpdate ==
  /\ callerpc = "update"
  /\ update_raised' \in BOOLEAN
  /\ callerpc' = "shutdown"
  /\ UNCHANGED <<srvpc, serving, is_started, is_shut_down, port_bound,
                 port_taken, backlog, accepted, clients, rebind>>
  /\ UNCHANGED nonproxyvars

\* shutdown, line 169: self.__serving = False.
ShutdownRequest ==
  /\ callerpc = "shutdown"
  /\ serving' = FALSE
  /\ callerpc' = "shutdown_wait"
  /\ UNCHANGED <<srvpc, is_started, is_shut_down, port_bound, port_taken,
                 backlog, accepted, clients, rebind>>
  /\ UNCHANGED update_raised
  /\ UNCHANGED nonproxyvars

\* ShutdownWait as it would be without the wait of line 170.
ShutdownNoWait ==
  /\ callerpc = "shutdown_wait"
  /\ callerpc' = "stopped"
  /\ UNCHANGED <<srvpc, serving, is_started, is_shut_down, port_bound,
                 port_taken, backlog, accepted, clients, rebind>>
  /\ UNCHANGED update_raised
  /\ UNCHANGED nonproxyvars

\* shutdown, line 170: self.__is_shut_down.wait(), then shutdown returns.
ShutdownWait ==
  /\ callerpc = "shutdown_wait"
  /\ is_shut_down
  /\ callerpc' = "stopped"
  /\ UNCHANGED <<srvpc, serving, is_started, is_shut_down, port_bound,
                 port_taken, backlog, accepted, clients, rebind>>
  /\ UNCHANGED update_raised
  /\ UNCHANGED nonproxyvars

\* au_test.py line 75: the finally block is left and AttemptUpdateWithFilter
\* returns, or the exception of PerformUpdate goes on to its caller; its
\* local variable proxy is dropped.
ReturnFromAttempt ==
  /\ callerpc = "stopped"
  /\ callerpc' = "returned"
  /\ UNCHANGED <<srvpc, serving, is_started, is_shut_down, port_bound,
                 port_taken, backlog, accepted, clients, rebind>>
  /\ UNCHANGED update_raised
  /\ UNCHANGED nonproxyvars

\* serve_forever, line 143.
SetServing ==
  /\ srvpc = "l143"
  /\ serving' = TRUE
  /\ srvpc' = "l144"
  /\ UNCHANGED <<callerpc, is_started, is_shut_down, port_bound, port_taken,
                 backlog, accepted, clients, rebind>>
  /\ UNCHANGED update_raised
  /\ UNCHANGED nonproxyvars

\* serve_forever, line 144.
ClearShutDown ==
  /\ srvpc = "l144"
  /\ is_shut_down' = FALSE
  /\ srvpc' = "l145"
  /\ UNCHANGED <<callerpc, serving, is_started, port_bound, port_taken,
                 backlog, accepted, clients, rebind>>
  /\ UNCHANGED update_raised
  /\ UNCHANGED nonproxyvars

\* serve_forever, line 145.
SetStarted ==
  /\ srvpc = "l145"
  /\ is_started' = TRUE
  /\ srvpc' = "l147"
  /\ UNCHANGED <<callerpc, serving, is_shut_down, port_bound, port_taken,
                 backlog, accepted, clients, rebind>>
  /\ UNCHANGED update_raised
  /\ UNCHANGED nonproxyvars

\* serve_forever, line 147: the test of the while loop.
TestServing ==
  /\ srvpc = "l147"
  /\ srvpc' = IF serving THEN "l152" ELSE "l156"
  /\ UNCHANGED <<callerpc, serving, is_started, is_shut_down, port_bound,
                 port_taken, backlog, accepted, clients, rebind>>
  /\ UNCHANGED update_raised
  /\ UNCHANGED nonproxyvars

\* serve_forever, lines 152-153: select returns the listening socket when a
\* connection is pending, and nothing after poll_interval otherwise.
Select ==
  /\ srvpc = "l152"
  /\ srvpc' = IF backlog > 0 THEN "l154" ELSE "l147"
  /\ UNCHANGED <<callerpc, serving, is_started, is_shut_down, port_bound,
                 port_taken, backlog, accepted, clients, rebind>>
  /\ UNCHANGED update_raised
  /\ UNCHANGED nonproxyvars

\* serve_forever, line 154: _handle_request_noblock accepts the pending
\* connection and hands it to a handler thread.
HandleRequest ==
  /\ srvpc = "l154"
  /\ backlog' = backlog - 1
  /\ accepted' = accepted + 1
  /\ srvpc' = "l147"
  /\ UNCHANGED <<callerpc, serving, is_started, is_shut_down, port_bound,
                 port_taken, clients, rebind>>
  /\ UNCHANGED update_raised
  /\ UNCHANGED nonproxyvars

\* serve_forever, line 156.
ClearStarted ==
  /\ srvpc = "l156"
  /\ is_started' = FALSE
  /\ srvpc' = "l157"
  /\ UNCHANGED <<callerpc, serving, is_shut_down, port_bound, port_taken,
                 backlog, accepted, clients, rebind>>
  /\ UNCHANGED update_raised
  /\ UNCHANGED nonproxyvars

\* serve_forever, line 157, after which the thread ends.
SetShutDown ==
  /\ srvpc = "l157"
  /\ is_shut_down' = TRUE
  /\ srvpc' = "exited"
  /\ UNCHANGED <<callerpc, serving, is_started, port_bound, port_taken,
                 backlog, accepted, clients, rebind>>
  /\ UNCHANGED update_raised
  /\ UNCHANGED nonproxyvars

\* A client connects to port_in: the connection waits in the backlog of the
\* socket that listens since __init__ (lines 113-115).
ClientConnect ==
  /\ port_bound
  /\ clients < MaxConn
  /\ clients' = clients + 1
  /\ backlog' = backlog + 1
  /\ UNCHANGED <<callerpc, srvpc, serving, is_started, is_shut_down,
                 port_bound, port_taken, accepted, rebind>>
  /\ UNCHANGED update_raised
  /\ UNCHANGED nonproxyvars

\* Nothing of lines 162-170 closes the listening socket, and nothing else in
\* the class does: it is closed when the proxy object is finalised, which
\* can happen only after the last reference (the local of au_test.py line 66
\* and the thread's target) is gone.
Finalize ==
  /\ callerpc = "returned"
  /\ srvpc = "exited"
  /\ port_bound
  /\ port_bound' = FALSE
  /\ backlog' = 0
  /\ UNCHANGED <<callerpc, srvpc, serving, is_started, is_shut_down,
                 port_taken, accepted, clients, rebind>>
  /\ UNCHANGED update_raised
  /\ UNCHANGED nonproxyvars

\* A second CrosTestProxy is constructed on the same port_in after shutdown
\* has returned (lines 112-118): the bind fails while the port is held.
Rebind ==
  /\ callerpc \in {"stopped", "returned"}
  /\ rebind = "none"
  /\ rebind' = IF port_bound \/ port_taken THEN "error" ELSE "ok"
  /\ UNCHANGED <<callerpc, srvpc, serving, is_started, is_shut_down,
                 port_bound, port_taken, backlog, accepted, clients>>
  /\ UNCHANGED update_raised
  /\ UNCHANGED nonproxyvars

\* The steps of the thread that runs AttemptUpdateWithFilter.
CallerStep ==
  \/ Construct
  \/ StartThread
  \/ WaitStarted
  \/ PerformUpdate
  \/ ShutdownRequest
  \/ ShutdownWait
  \/ ReturnFromAttempt

\* The steps of the thread that runs serve_forever.
ServerStep ==
  \/ SetServing
  \/ ClearShutDown
  \/ SetStarted
  \/ TestServing
  \/ Select
  \/ HandleRequest
  \/ ClearStarted
  \/ SetShutDown

ProxyNext ==
  \/ CallerStep
  \/ ServerStep
  \/ ClientConnect
  \/ Finalize
  \/ Rebind

\* =========================================================================
\*                     cros_test_proxy.py: the connection handlers
\* =========================================================================

\* The filters a proxy is given: the InterruptionFilter of au_test.py lines
\* 136-160, or any other subclass of Filter, whose InBound and OutBound
\* return the data or None as they please.
\* The connections the proxy has accepted; each has its own _Handler thread
\* (SocketServer.ThreadingMixIn, line 42).
Conns == DOMAIN hpc

\* len(data) in chunks: a chunk read by recv(1024), or '' at end of stream.
DataLen(d) == IF d = "chunk" THEN 1 ELSE 0

\* The connections as they are once accepted: n connections, each with the
\* same request and payload still to come, nothing relayed yet.
RelayStart(kind, n, request, payload) ==
  /\ filter_kind = kind
  /\ hpc = [c \in 1..n |-> "new"]
  /\ in_left = [c \in 1..n |-> request]
  /\ out_left = [c \in 1..n |-> payload]
  /\ data = [c \in 1..n |-> "unset"]
  /\ fwd_in = [c \in 1..n |-> 0]
  /\ fwd_out = [c \in 1..n |-> 0]
  /\ vetoed = [c \in 1..n |-> "no"]
  /\ open_socks = [c \in 1..n |-> {"s_in"}]
  /\ close_count = 0
  /\ data_size = 0

\* A proxy with any filter and up to MaxConn connections.
RelayInit ==
  \E n \in 1..MaxConn, request \in 0..MaxRequest, payload \in 0..MaxPayload :
    RelayStart("AnyFilter", n, request, payload)

\* The proxy of testInterruptedUpdate (au_test.py lines 162-163) with one
\* connection more than the filter is meant to close; through each the
\* server sends one chunk and then closes.
InterruptInit == RelayStart("InterruptionFilter", CloseLimit + 1, 0, 1)

\* _Handler.setup (lines 48-50) calls filter.setup() on the filter shared by
\* the proxy: InterruptionFilter.setup (au_test.py lines 147-149) sets its
\* data_size to 0.  Then handle opens the outgoing socket (lines 60-62).
HandlerSetup(c) ==
  /\ hpc[c] = "new"
  /\ data_size' = IF filter_kind = "InterruptionFilter" THEN 0 ELSE data_size
  /\ open_socks' = [open_socks EXCEPT ![c] = {"s_in", "s_out"}]
  /\ hpc' = [hpc EXCEPT ![c] = "select"]
  /\ UNCHANGED <<filter_kind, in_left, out_left, data, fwd_in, fwd_out,
                 vetoed, close_count>>
  /\ UNCHANGED nonrelayvars

\* The handler of a connection is in a call of the filter: it has read data
\* and InBound or OutBound has not returned yet (lines 69, 79).
Blocked(c) == hpc[c] \in {"InBound", "OutBound"}

\* RecvIn of a proxy whose handlers wait for each other's filter calls.
RecvInUnderFilterLock(c) ==
  /\ hpc[c] = "select"
  /\ \A d \in Conns \ {c} : ~Blocked(d)
  /\ IF in_left[c] > 0
       THEN /\ data' = [data EXCEPT ![c] = "chunk"]
            /\ in_left' = [in_left EXCEPT ![c] = @ - 1]
       ELSE /\ data' = [data EXCEPT ![c] = "eof"]
            /\ in_left' = in_left
  /\ hpc' = [hpc EXCEPT ![c] = "InBound"]
  /\ UNCHANGED <<filter_kind, out_left, fwd_in, fwd_out, vetoed, open_socks,
                 close_count, data_size>>
  /\ UNCHANGED nonrelayvars

\* Lines 65-68: select returns s_in and recv reads the client's next chunk,
\* or '' when the client has sent everything and closed.
RecvIn(c) ==
  /\ hpc[c] = "select"
  /\ IF in_left[c] > 0
       THEN /\ data' = [data EXCEPT ![c] = "chunk"]
            /\ in_left' = [in_left EXCEPT ![c] = @ - 1]
       ELSE /\ data' = [data EXCEPT ![c] = "eof"]
            /\ in_left' = in_left
  /\ hpc' = [hpc EXCEPT ![c] = "InBound"]
  /\ UNCHANGED <<filter_kind, out_left, fwd_in, fwd_out, vetoed, open_socks,
                 close_count, data_size>>
  /\ UNCHANGED nonrelayvars

\* Lines 65, 77-78: the same for s_out and the server.
RecvOut(c) ==
  /\ hpc[c] = "select"
  /\ IF out_left[c] > 0
       THEN /\ data' = [data EXCEPT ![c] = "chunk"]
            /\ out_left' = [out_left EXCEPT ![c] = @ - 1]
       ELSE /\ data' = [data EXCEPT ![c] = "eof"]
            /\ out_left' = out_left
  /\ hpc' = [hpc EXCEPT ![c] = "OutBound"]
  /\ UNCHANGED <<filter_kind, in_left, fwd_in, fwd_out, vetoed, open_socks,
                 close_count, data_size>>
  /\ UNCHANGED nonrelayvars

\* Line 69: data = filter.InBound(data).  InterruptionFilter inherits
\* Filter.InBound (lines 25-31), which returns the data.
InBound(c) ==
  /\ hpc[c] = "InBound"
  /\ \E r \in (IF filter_kind = "AnyFilter" THEN {data[c], "none"}
                                            ELSE {data[c]}) :
       /\ data' = [data EXCEPT ![c] = r]
       /\ vetoed' = [vetoed EXCEPT ![c] = IF r = "none" THEN data[c] ELSE @]
  /\ hpc' = [hpc EXCEPT ![c] = "in_test"]
  /\ UNCHANGED <<filter_kind, in_left, out_left, fwd_in, fwd_out, open_socks,
                 close_count, data_size>>
  /\ UNCHANGED nonrelayvars

\* Lines 70-75: the loop is left when data is None or empty, and when sendall
\* raises socket.error; otherwise the chunk has been sent on to the server.
InSend(c) ==
  /\ hpc[c] = "in_test"
  /\ \/ /\ data[c] # "chunk"
        /\ hpc' = [hpc EXCEPT ![c] = "close"]
        /\ fwd_in' = fwd_in
     \/ /\ data[c] = "chunk"
        /\ hpc' = [hpc EXCEPT ![c] = "select"]
        /\ fwd_in' = [fwd_in EXCEPT ![c] = @ + 1]
     \/ /\ data[c] = "chunk"
        /\ hpc' = [hpc EXCEPT ![c] = "close"]
        /\ fwd_in' = fwd_in
  /\ UNCHANGED <<filter_kind, in_left, out_left, data, fwd_out, vetoed,
                 open_socks, close_count, data_size>>
  /\ UNCHANGED nonrelayvars

\* Line 79 with a filter that is not the InterruptionFilter: OutBound
\* returns the data or None.
OutBoundAny(c) ==
  /\ hpc[c] = "OutBound"
  /\ filter_kind = "AnyFilter"
  /\ \E r \in {data[c], "none"} :
       /\ data' = [data EXCEPT ![c] = r]
       /\ vetoed' = [vetoed EXCEPT ![c] = IF r = "none" THEN data[c] ELSE @]
  /\ hpc' = [hpc EXCEPT ![c] = "out_test"]
  /\ UNCHANGED <<filter_kind, in_left, out_left, fwd_in, fwd_out, open_socks,
                 close_count, data_size>>
  /\ UNCHANGED nonrelayvars

\* Line 79 with the InterruptionFilter, au_test.py line 154: the test
\* self.close_count < 3.
TestCloseCount(c) ==
  /\ hpc[c] = "OutBound"
  /\ filter_kind = "InterruptionFilter"
  /\ hpc' = [hpc EXCEPT ![c] = IF close_count < CloseLimit THEN "l155" ELSE "l159"]
  /\ UNCHANGED <<filter_kind, in_left, out_left, data, fwd_in, fwd_out,
                 vetoed, open_socks, close_count, data_size>>
  /\ UNCHANGED nonrelayvars

\* au_test.py line 155: the test self.data_size > 2M.
TestDataSize(c) ==
  /\ hpc[c] = "l155"
  /\ hpc' = [hpc EXCEPT ![c] = IF data_size > Threshold THEN "l156" ELSE "l159"]
  /\ UNCHANGED <<filter_kind, in_left, out_left, data, fwd_in, fwd_out,
                 vetoed, open_socks, close_count, data_size>>
  /\ UNCHANGED nonrelayvars

\* au_test.py lines 156-157: self.close_count += 1; return None.
CountAndVeto(c) ==
  /\ hpc[c] = "l156"
  /\ close_count' = close_count + 1
  /\ data' = [data EXCEPT ![c] = "none"]
  /\ vetoed' = [vetoed EXCEPT ![c] = data[c]]
  /\ hpc' = [hpc EXCEPT ![c] = "out_test"]
  /\ UNCHANGED <<filter_kind, in_left, out_left, fwd_in, fwd_out, open_socks,
                 data_size>>
  /\ UNCHANGED nonrelayvars

\* au_test.py lines 159-160: self.data_size += len(data); return data.
AddDataSize(c) ==
  /\ hpc[c] = "l159"
  /\ data_size' = data_size + DataLen(data[c])
  /\ hpc' = [hpc EXCEPT ![c] = "out_test"]
  /\ UNCHANGED <<filter_kind, in_left, out_left, data, fwd_in, fwd_out,
                 vetoed, open_socks, close_count>>
  /\ UNCHANGED nonrelayvars

\* OutSend as it would be if only an empty string, not None, left the loop.
OutSendNoneForwarded(c) ==
  /\ hpc[c] = "out_test"
  /\ \/ /\ data[c] = "eof"
        /\ hpc' = [hpc EXCEPT ![c] = "close"]
        /\ fwd_out' = fwd_out
     \/ /\ data[c] # "eof"
        /\ hpc' = [hpc EXCEPT ![c] = "select"]
        /\ fwd_out' = [fwd_out EXCEPT ![c] = @ + 1]
     \/ /\ data[c] # "eof"
        /\ hpc' = [hpc EXCEPT ![c] = "close"]
        /\ fwd_out' = fwd_out
  /\ UNCHANGED <<filter_kind, in_left, out_left, data, fwd_in, vetoed,
                 open_socks, close_count, data_size>>
  /\ UNCHANGED nonrelayvars

\* Lines 80-85: as lines 70-75, towards the client.
OutSend(c) ==
  /\ hpc[c] = "out_test"
  /\ \/ /\ data[c] # "chunk"
        /\ hpc' = [hpc EXCEPT ![c] = "close"]
        /\ fwd_out' = fwd_out
     \/ /\ data[c] = "chunk"
        /\ hpc' = [hpc EXCEPT ![c] = "select"]
        /\ fwd_out' = [fwd_out EXCEPT ![c] = @ + 1]
     \/ /\ data[c] = "chunk"
        /\ hpc' = [hpc EXCEPT ![c] = "close"]
        /\ fwd_out' = fwd_out
  /\ UNCHANGED <<filter_kind, in_left, out_left, data, fwd_in, vetoed,
                 open_socks, close_count, data_size>>
  /\ UNCHANGED nonrelayvars

\* Lines 87-88: s_in.close(); s_out.close().
CloseSockets(c) ==
  /\ hpc[c] = "close"
  /\ open_socks' = [open_socks EXCEPT ![c] = {}]
  /\ hpc' = [hpc EXCEPT ![c] = "closed"]
  /\ UNCHANGED <<filter_kind, in_left, out_left, data, fwd_in, fwd_out,
                 vetoed, close_count, data_size>>
  /\ UNCHANGED nonrelayvars

\* The steps of the handler threads of a proxy whose filter may return
\* anything from InBound and OutBound.
RelayNext ==
  \/ \E c \in Conns : HandlerSetup(c)
  \/ \E c \in Conns : RecvIn(c)
  \/ \E c \in Conns : RecvOut(c)
  \/ \E c \in Conns : InBound(c)
  \/ \E c \in Conns : InSend(c)
  \/ \E c \in Conns : OutBoundAny(c)
  \/ \E c \in Conns : OutSend(c)
  \/ \E c \in Conns : CloseSockets(c)

\* The steps of the handler threads of a proxy whose filter is the
\* InterruptionFilter: its OutBound is lines 153-160 of au_test.py.
InterruptNext ==
  \/ \E c \in Conns : HandlerSetup(c)
  \/ \E c \in Conns : RecvIn(c)
  \/ \E c \in Conns : RecvOut(c)
  \/ \E c \in Conns : InBound(c)
  \/ \E c \in Conns : InSend(c)
  \/ \E c \in Conns : TestCloseCount(c)
  \/ \E c \in Conns : TestDataSize(c)
  \/ \E c \in Conns : CountAndVeto(c)
  \/ \E c \in Conns : AddDataSize(c)
  \/ \E c \in Conns : OutSend(c)
  \/ \E c \in Conns : CloseSockets(c)

\* =========================================================================
\*     cros_test_proxy.py: the accept loop together with the handlers
\* =========================================================================
\* What belongs neither to the accept loop nor to the handlers.
nonservevars == <<jobvars, gcevars, idvars, updvars, genvars, vfyvars,
                  vmvars, harnessvars, waitvars, resvars, imgvars,
                  unzipvars>>

\* A proxy that has accepted nothing yet, with a filter of any kind.
ServeInit == ProxyInit /\ RelayStart("AnyFilter", 0, 0, 0)

\* SocketServer.ThreadingMixIn (line 42): the thread process_request has
\* started for an accepted connection begins to run its _Handler.  The
\* connection has one chunk in flight, from the client or from the server.
SpawnHandler ==
  /\ Len(hpc) < accepted
  /\ hpc' = Append(hpc, "new")
  /\ \E from_client \in {0, 1} :
       /\ in_left' = Append(in_left, from_client)
       /\ out_left' = Append(out_left, 1 - from_client)
  /\ data' = Append(data, "unset")
  /\ fwd_in' = Append(fwd_in, 0)
  /\ fwd_out' = Append(fwd_out, 0)
  /\ vetoed' = Append(vetoed, "no")
  /\ open_socks' = Append(open_socks, {"s_in"})
  /\ UNCHANGED <<filter_kind, close_count, data_size>>
  /\ UNCHANGED proxyvars
  /\ UNCHANGED nonservevars

\* The steps of AttemptUpdateWithFilter up to its call of PerformUpdate and,
\* while that call runs, of the serve_forever thread, of the clients and of
\* the handler threads.
ServeNext ==
  \/ Construct
  \/ StartThread
  \/ WaitStarted
  \/ SetServing
  \/ ClearShutDown
  \/ SetStarted
  \/ TestServing
  \/ Select
  \/ HandleRequest
  \/ ClientConnect
  \/ SpawnHandler
  \/ \E c \in Conns : HandlerSetup(c)
  \/ \E c \in Conns : RecvIn(c)
  \/ \E c \in Conns : RecvOut(c)
  \/ \E c \in Conns : InBound(c)
  \/ \E c \in Conns : InSend(c)
  \/ \E c \in Conns : OutBoundAny(c)
  \/ \E c \in Conns : OutSend(c)
  \/ \E c \in Conns : CloseSockets(c)

\* =========================================================================
\*          gce_au_worker.py: GCEAUWorker.UpdateImage and CleanUp
\* =========================================================================
\* A tarball, an image and an instance are named by the second they were
\* named in (lines 346-347, 362, 375-377), so a name is a time here.  The
\* tracking fields tarball_remote and image hold 0 for None.

\* The values of a sequence.
Range(s) == {s[i] : i \in DOMAIN s}

\* The resources the worker object refers to.
Tracked ==
  [tarball |-> tarball_remote, image |-> image, instances |-> Range(instances)]

NoResources == [tarballs |-> {}, images |-> {}, vms |-> {}]

\* No call of gce_context.DeleteInstance has been made.
NoAttempts == [n \in {} |-> 0]

\* The calls of gce_context.DeleteInstance made for the name n.
Attempts(n) == IF n \in DOMAIN delete_attempts THEN delete_attempts[n] ELSE 0

\* The worker after __init__ (lines 124-132) and _LoadTests (lines 318-340),
\* which leaves one test target or the list of the overlay's file.
GceInit ==
  /\ gpc = "idle"
  /\ gcalls = 0
  /\ tests \in 0..MaxTests
  /\ gnow = 1
  /\ ts = 0
  /\ tarball_remote = 0
  /\ image = 0
  /\ instances = <<>>
  /\ bg_delete_processes = <<>>
  /\ procs = <<>>
  /\ gcs = {}
  /\ images = {}
  /\ vms = {}
  /\ pending = {}
  /\ tracked_before = Tracked
  /\ made = NoResources
  /\ made_earlier = NoResources
  /\ delete_attempts = NoAttempts

\* What the deletors of _DeleteExistingResources (lines 416-433) do to the
\* project for a worker that tracks r and whose InstanceExists calls
\* (lines 409, 425-429) answered yes for the instances found: the
\* tarball and the image are deleted if they are there, DeleteInstance is
\* called for each instance found, and a step that fails is logged and
\* ignored.
DeleteFound(r, found) ==
  /\ gcs' = gcs \ {r.tarball}
  /\ images' = images \ {r.image}
  /\ vms' = vms \ found
  /\ delete_attempts' =
       [n \in DOMAIN delete_attempts \cup found |->
          Attempts(n) + (IF n \in found THEN 1 ELSE 0)]

\* _DeleteExistingResources in the worker's own process: each instance it
\* tracks is deleted if it exists.
DeleteExistingResources(r) == DeleteFound(r, r.instances \cap vms)

\* Lines 435-439.
ResetVariables ==
  /\ tarball_remote' = 0
  /\ image' = 0
  /\ instances' = <<>>

\* UpdateImage without the background deletion of lines 159-161.
UpdateImageStartNoDelete ==
  /\ gpc \in {"idle", "returned", "raised"}
  /\ gcalls < MaxCalls
  /\ gcalls' = gcalls + 1
  /\ ts' = gnow
  /\ tracked_before' = Tracked
  /\ made' = NoResources
  /\ made_earlier' = [tarballs |-> made_earlier.tarballs \cup made.tarballs,
                      images |-> made_earlier.images \cup made.images,
                      vms |-> made_earlier.vms \cup made.vms]
  /\ gpc' = "CopyInto"
  /\ UNCHANGED <<tests, gnow, tarball_remote, image, instances, gcs, images,
                 vms, pending, procs, bg_delete_processes>>
  /\ UNCHANGED delete_attempts
  /\ UNCHANGED nongcevars

\* UpdateImage, lines 159-161: a process is forked to run
\* _DeleteExistingResources on its copy of the worker, started and appended
\* to bg_delete_processes; then _CreateImage takes its timestamp
\* (lines 344-347).
UpdateImageStart ==
  /\ gpc \in {"idle", "returned", "raised"}
  /\ gcalls < MaxCalls
  /\ gcalls' = gcalls + 1
  /\ procs' = Append(procs, [tracked |-> Tracked, alive |-> TRUE,
                             checked |-> FALSE, found |-> {}])
  /\ bg_delete_processes' = Append(bg_delete_processes, Len(procs) + 1)
  /\ ts' = gnow
  /\ tracked_before' = Tracked
  /\ made' = NoResources
  /\ made_earlier' = [tarballs |-> made_earlier.tarballs \cup made.tarballs,
                      images |-> made_earlier.images \cup made.images,
                      vms |-> made_earlier.vms \cup made.vms]
  /\ gpc' = "CopyInto"
  /\ UNCHANGED <<tests, gnow, tarball_remote, image, instances, gcs, images,
                 vms, pending>>
  /\ UNCHANGED delete_attempts
  /\ UNCHANGED nongcevars

\* The background process (lines 412-439 on its copy of the worker), first
\* half: the steps ask whether the instances the worker tracked when the
\* process was forked exist (lines 409, 425-429).
BackgroundCheck(p) ==
  /\ procs[p].alive
  /\ ~procs[p].checked
  /\ procs' = [procs EXCEPT ![p].checked = TRUE,
                            ![p].found = procs[p].tracked.instances \cap vms]
  /\ UNCHANGED <<gpc, gcalls, tests, gnow, ts, tarball_remote, image,
                 instances, bg_delete_processes, gcs, images, vms, pending,
                 tracked_before, made, made_earlier, delete_attempts>>
  /\ UNCHANGED nongcevars

\* The background process, second half: it deletes the tarball and the
\* image the worker tracked and the instances it found (line 410), and
\* exits.  What it resets is its own copy.
BackgroundDelete(p) ==
  /\ procs[p].alive
  /\ procs[p].checked
  /\ DeleteFound(procs[p].tracked, procs[p].found)
  /\ procs' = [procs EXCEPT ![p].alive = FALSE]
  /\ UNCHANGED <<gpc, gcalls, tests, gnow, ts, tarball_remote, image,
                 instances, bg_delete_processes, pending, tracked_before,
                 made, made_earlier>>
  /\ UNCHANGED nongcevars

\* _CreateImage, lines 350-359: the upload, which takes more than the second
\* the names resolve, either puts the tarball in the bucket or fails, and the
\* failure is raised as an UpdateException.
CopyInto ==
  /\ gpc = "CopyInto"
  /\ \/ /\ gcs' = gcs \cup {ts}
        /\ tarball_remote' = ts
        /\ made' = [made EXCEPT !.tarballs = @ \cup {ts}]
        /\ gnow' = gnow + 1
        /\ gpc' = "CreateImage"
     \/ /\ gpc' = "raised"
        /\ UNCHANGED <<gcs, tarball_remote, made, gnow>>
  /\ UNCHANGED <<gcalls, tests, ts, image, instances, bg_delete_processes,
                 procs, images, vms, pending, tracked_before, made_earlier>>
  /\ UNCHANGED delete_attempts
  /\ UNCHANGED nongcevars

\* _CreateImage, lines 362-369, with gce.CreateImage (lib/gce.py lines
\* 226-231) and _WaitForOperation (lines 366-381): the image is created and
\* tracked; or the request is refused, which is no gce.Error; or the
\* operation ends in an error; or it is not done in time, and then the
\* handler that would delete the image is not called (line 379) while the
\* insertion stays in progress.  The two gce.Errors go to _HandleFail.
CreateImage ==
  /\ gpc = "CreateImage"
  /\ \/ /\ images' = images \cup {ts}
        /\ image' = ts
        /\ made' = [made EXCEPT !.images = @ \cup {ts}]
        /\ gpc' = "CreateInstances"
        /\ UNCHANGED pending
     \/ /\ gpc' = "raised"
        /\ UNCHANGED <<images, image, made, pending>>
     \/ /\ gpc' = "HandleFail"
        /\ UNCHANGED <<images, image, made, pending>>
     \/ /\ pending' = pending \cup {ts}
        /\ gpc' = "HandleFail"
        /\ UNCHANGED <<images, image, made>>
  /\ UNCHANGED <<gcalls, tests, gnow, ts, tarball_remote, instances,
                 bg_delete_processes, procs, gcs, vms, tracked_before,
                 made_earlier>>
  /\ UNCHANGED delete_attempts
  /\ UNCHANGED nongcevars

\* An image insertion the worker gave up waiting for completes.
OperationCompletes ==
  /\ \E i \in pending :
       /\ images' = images \cup {i}
       /\ pending' = pending \ {i}
  /\ UNCHANGED <<gpc, gcalls, tests, gnow, ts, tarball_remote, image,
                 instances, bg_delete_processes, procs, gcs, vms,
                 tracked_before, made, made_earlier>>
  /\ UNCHANGED delete_attempts
  /\ UNCHANGED nongcevars

\* _HandleFail (lines 452-471), then the raise of line 369: either a copy
\* raises something other than shutil.Error and the call ends there, or the
\* worker deletes what it tracks and resets its fields.
HandleFail ==
  /\ gpc = "HandleFail"
  /\ \/ /\ DeleteExistingResources(Tracked)
        /\ ResetVariables
     \/ UNCHANGED <<gcs, images, vms, tarball_remote, image, instances,
                    delete_attempts>>
  /\ gpc' = "raised"
  /\ UNCHANGED <<gcalls, tests, gnow, ts, bg_delete_processes, procs,
                 pending, tracked_before, made, made_earlier>>
  /\ UNCHANGED nongcevars

\* The names the loop of _CreateInstances can give n instances from time t
\* on: each iteration reads the clock, which has moved on or has not.
InstanceNames(n, t) ==
  {s \in [1..n -> t..(t + n)] :
     /\ n > 0 => s[1] = t
     /\ \A i \in 1..(n - 1) : s[i + 1] \in {s[i], s[i] + 1}}

\* _CreateInstances, lines 373-383: every test target is given an instance
\* name made of the current second, and the name is tracked.
AssignInstances ==
  /\ gpc = "CreateInstances"
  /\ \E s \in InstanceNames(tests, gnow) :
       /\ instances' = s
       /\ gnow' = IF tests > 0 THEN s[tests] ELSE gnow
  /\ gpc' = "RunParallelSteps"
  /\ UNCHANGED <<gcalls, tests, ts, tarball_remote, image,
                 bg_delete_processes, procs, gcs, images, vms, pending,
                 tracked_before, made, made_earlier>>
  /\ UNCHANGED delete_attempts
  /\ UNCHANGED nongcevars

\* _CreateInstances, line 384: the instances are created in parallel.  All
\* are created, which takes names that differ, or a creation fails, some
\* instances exist and the failure leaves UpdateImage.
RunParallelSteps ==
  /\ gpc = "RunParallelSteps"
  /\ \/ /\ Cardinality(Range(instances)) = tests
        /\ vms' = vms \cup Range(instances)
        /\ made' = [made EXCEPT !.vms = @ \cup Range(instances)]
        /\ gnow' = gnow + 1
        /\ gpc' = "returned"
     \/ /\ \E created \in SUBSET Range(instances) :
             /\ vms' = vms \cup created
             /\ made' = [made EXCEPT !.vms = @ \cup created]
        /\ tests > 0
        /\ gpc' = "raised"
        /\ UNCHANGED gnow
  /\ UNCHANGED <<gcalls, tests, ts, tarball_remote, image, instances,
                 bg_delete_processes, procs, gcs, images, pending,
                 tracked_before, made_earlier>>
  /\ UNCHANGED delete_attempts
  /\ UNCHANGED nongcevars

\* CleanUp is called (line 137).
CleanUpStart ==
  /\ gpc \in {"idle", "returned", "raised"}
  /\ gpc' = "join"
  /\ UNCHANGED <<gcalls, tests, gnow, ts, tarball_remote, image, instances,
                 bg_delete_processes, procs, gcs, images, vms, pending,
                 tracked_before, made, made_earlier>>
  /\ UNCHANGED delete_attempts
  /\ UNCHANGED nongcevars

\* _WaitForBackgroundDeleteProcesses (lines 494-496): every process of the
\* list is joined and the list is emptied.
WaitForBackgroundDeleteProcesses ==
  /\ gpc = "join"
  /\ \A i \in DOMAIN bg_delete_processes :
       ~procs[bg_delete_processes[i]].alive
  /\ bg_delete_processes' = <<>>
  /\ gpc' = "delete"
  /\ UNCHANGED <<gcalls, tests, gnow, ts, tarball_remote, image, instances,
                 procs, gcs, images, vms, pending, tracked_before, made,
                 made_earlier>>
  /\ UNCHANGED delete_attempts
  /\ UNCHANGED nongcevars

\* CleanUp, line 141: _DeleteExistingResources in the worker's own process.
CleanUpDelete ==
  /\ gpc = "delete"
  /\ DeleteExistingResources(Tracked)
  /\ ResetVariables
  /\ gpc' = "cleaned"
  /\ UNCHANGED <<gcalls, tests, gnow, ts, bg_delete_processes, procs,
                 pending, tracked_before, made, made_earlier>>
  /\ UNCHANGED nongcevars

GceNext ==
  \/ UpdateImageStart
  \/ \E p \in DOMAIN procs : BackgroundCheck(p)
  \/ \E p \in DOMAIN procs : BackgroundDelete(p)
  \/ CopyInto
  \/ CreateImage
  \/ OperationCompletes
  \/ HandleFail
  \/ AssignInstances
  \/ RunParallelSteps
  \/ CleanUpStart
  \/ WaitForBackgroundDeleteProcesses
  \/ CleanUpDelete

\* =========================================================================
\*     lib/dev_server_wrapper.py: GenerateUpdateId, and UpdatePayload
\* =========================================================================
\* A string is the sequence of its pieces: the names "a" and "b", the words
\* the two functions append, and the separators they join with.  None is a
\* piece no string contains.
None == <<"None">>

\* A value Python takes as true: neither None nor the empty string.
Truthy(x) == x # None /\ x # <<>>

\* The paths an image or a key can have.
Names ==
  {<<"a">>, <<"b">>, <<"patched_kernel">>, <<"for_vm">>, <<"a", "+", "b">>}

\* What an update is made from; an absent base or key is None.
Updates ==
  [target : Names, base : Names \cup {None}, key : Names \cup {None},
   for_vm : BOOLEAN]

\* GenerateUpdateId (lines 39-45).
GenerateUpdateId(target, src, key, for_vm) ==
  LET with_src == IF Truthy(src) THEN src \o <<"->">> \o target ELSE target
      with_key == IF Truthy(key) THEN with_src \o <<"+">> \o key ELSE with_src
  IN IF ~for_vm THEN with_key \o <<"+">> \o <<"patched_kernel">> ELSE with_key

\* UpdatePayload.UpdateId (cros_generate_test_payloads.py lines 98-101).
UpdateId(u) == GenerateUpdateId(u.target, u.base, u.key, u.for_vm)

\* UpdatePayload.__str__ (lines 103-114), which __eq__ and __hash__ compare
\* (lines 116-120).
PayloadStr(u) ==
  LET with_base == IF Truthy(u.base) THEN u.base \o <<"->">> \o u.target
                                     ELSE u.target
      with_key == IF Truthy(u.key) THEN with_base \o <<"+">> \o u.key
                                   ELSE with_base
  IN IF u.for_vm THEN with_key \o <<"+">> \o <<"for_vm">> ELSE with_key

\* Two updates whose identifiers are to be compared.
IdInit ==
  /\ idpc = "input"
  /\ first \in Updates
  /\ second \in Updates
  /\ update_id = <<None, None>>
  /\ payload_str = <<None, None>>

\* The identifier and the string of both are generated.
GenerateIds ==
  /\ idpc = "input"
  /\ update_id' = <<UpdateId(first), UpdateId(second)>>
  /\ payload_str' = <<PayloadStr(first), PayloadStr(second)>>
  /\ idpc' = "generated"
  /\ UNCHANGED <<first, second>>
  /\ UNCHANGED nonidvars

IdNext == GenerateIds

\* =========================================================================
\*   au_worker.py, vm_au_worker.py, real_au_worker.py: UpdateImage and
\*   UpdateUsingPayload
\* =========================================================================
WorkerClasses == {"VMAUWorker", "RealAUWorker"}

\* The lines the update command can print.
OutputLines == {"hash mismatch", "reading payload", "Update failed"}

\* Sequences of at most n elements of S.
SeqUpTo(S, n) == UNION {[1..k -> S] : k \in 0..n}

\* The directories GeneratePayloads puts in the cache
\* (cros_generate_test_payloads.py line 305): never empty.
CachePaths == {<<"update", "cache1">>, <<"update", "cache2">>}

\* The updates a scenario asks a worker for: PerformUpdate (au_worker.py
\* line 135) passes '' for no source image.
Requests ==
  [target : {<<"a">>, <<"b">>}, base : {<<>>, <<"a">>}, key : {None, <<"b">>}]

\* No exception, and no --update_url.
NoException == [type |-> "none", code |-> 0, output |-> <<>>]

NoUrl == [port |-> 0, sub_dir |-> None]

\* An UpdateException made from a code and a text.
UpdateException(code, stdout) ==
  [type |-> "UpdateException", code |-> code, output |-> stdout]

\* DevServerWrapper.GetDevServerURL (lib/dev_server_wrapper.py lines
\* 105-112): the address, the port (8080 when none is given) and the
\* sub-directory.
GetDevServerURL(port, sub_dir) ==
  [port |-> IF port = 0 THEN 8080 ELSE port, sub_dir |-> sub_dir]

\* self.update_cache.get(update_id) (au_worker.py line 192).
CacheGet(update_id_) ==
  IF update_id_ \in DOMAIN update_cache THEN update_cache[update_id_] ELSE None

\* needle occurs in hay: re.search(re.escape(needle), hay).
Contains(hay, needle) ==
  \E i \in 0..(Len(hay) - Len(needle)) :
    SubSeq(hay, i + 1, i + Len(needle)) = needle

\* The test of AttemptUpdateWithPayloadExpectedFailure (au_test.py line 53).
Found(expected_msg, e) == Contains(e.output, expected_msg)

\* A worker whose cache may hold the payload of the update for a VM, the
\* one for a device, both or neither.  UpdateImage is reached through
\* PerformUpdate (au_test.py lines 72-184); the call of PrepareRealBase
\* (au_worker.py lines 152-155) gives no source image and no key, as
\* PerformUpdate does without them.  Tests call UpdateUsingPayload
\* themselves (au_test.py line 50).
UpdInit ==
  /\ worker_class \in WorkerClasses
  /\ method \in {"UpdateImage", "UpdateUsingPayload"}
  /\ wpc = IF method = "UpdateImage" THEN "PerformUpdate" ELSE "start"
  /\ update \in Requests
  /\ proxy_port \in {0, 8081}
  /\ \E ids \in SUBSET {GenerateUpdateId(update.target, update.base,
                                         update.key, v) : v \in BOOLEAN} :
       update_cache \in [ids -> CachePaths]
  /\ update_url = NoUrl
  /\ cmd_ran = FALSE
  /\ tool_output = <<>>
  /\ returncode = 0
  /\ err = NoException
  /\ fail_directory = {}
  /\ use_delta_updates \in BOOLEAN
  /\ src_image_path = update.base
  /\ looked_up = None

\* PerformUpdate without line 135: the source image is passed on whether or
\* not delta updates are enabled.
WorkerPerformUpdateKeepingSource ==
  /\ wpc = "PerformUpdate"
  /\ update' = [update EXCEPT !.base = src_image_path]
  /\ wpc' = "start"
  /\ UNCHANGED <<worker_class, method, proxy_port, update_cache, update_url,
                 cmd_ran, tool_output, returncode, err, fail_directory,
                 use_delta_updates, src_image_path, looked_up>>
  /\ UNCHANGED nonupdvars

\* AUWorker.PerformUpdate (au_worker.py lines 114-139): without delta
\* updates src_image_path becomes '', and UpdateImage is called with it.
WorkerPerformUpdate ==
  /\ wpc = "PerformUpdate"
  /\ update' = [update EXCEPT
                  !.base = IF use_delta_updates THEN src_image_path ELSE <<>>]
  /\ wpc' = "start"
  /\ UNCHANGED <<worker_class, method, proxy_port, update_cache, update_url,
                 cmd_ran, tool_output, returncode, err, fail_directory,
                 use_delta_updates, src_image_path, looked_up>>
  /\ UNCHANGED nonupdvars

\* UpdateImage up to the call of AppendUpdateFlags (vm_au_worker.py lines
\* 90-100, real_au_worker.py lines 30-35); UpdateUsingPayload has no such
\* call (vm_au_worker.py lines 114-127, real_au_worker.py lines 43-50).
BuildCmd ==
  /\ wpc = "start"
  /\ wpc' = IF method = "UpdateImage" THEN "AppendUpdateFlags"
                                     ELSE "RunUpdateCmd"
  /\ UNCHANGED <<worker_class, method, update, proxy_port, update_cache,
                 update_url, cmd_ran, tool_output, returncode, err,
                 fail_directory>>
  /\ UNCHANGED <<use_delta_updates, src_image_path, looked_up>>
  /\ UNCHANGED nonupdvars

\* AppendUpdateFlags as it would be if a miss fell back to the devserver's
\* root.
AppendUpdateFlagsGuess ==
  /\ wpc = "AppendUpdateFlags"
  /\ looked_up' = GenerateUpdateId(update.target, update.base, update.key,
                                  worker_class = "VMAUWorker")
  /\ LET update_id_ == GenerateUpdateId(update.target, update.base, update.key,
                                        worker_class = "VMAUWorker")
         cache_path == CacheGet(update_id_)
     IN /\ update_url' = GetDevServerURL(proxy_port, cache_path)
        /\ wpc' = "RunUpdateCmd"
        /\ err' = err
  /\ UNCHANGED <<worker_class, method, update, proxy_port, update_cache,
                 cmd_ran, tool_output, returncode, fail_directory>>
  /\ UNCHANGED <<use_delta_updates, src_image_path>>
  /\ UNCHANGED nonupdvars

\* AppendUpdateFlags (au_worker.py lines 188-199), called with for_vm=True
\* by VMAUWorker (vm_au_worker.py lines 143-145) and with the default False
\* by RealAUWorker; its exception leaves UpdateImage, which calls it outside
\* any try (vm_au_worker.py line 101, real_au_worker.py line 36).
AppendUpdateFlags ==
  /\ wpc = "AppendUpdateFlags"
  /\ looked_up' = GenerateUpdateId(update.target, update.base, update.key,
                                  worker_class = "VMAUWorker")
  /\ LET update_id_ == GenerateUpdateId(update.target, update.base, update.key,
                                        worker_class = "VMAUWorker")
         cache_path == CacheGet(update_id_)
     IN IF Truthy(cache_path)
          THEN /\ update_url' = GetDevServerURL(proxy_port, cache_path)
               /\ wpc' = "RunUpdateCmd"
               /\ err' = err
          ELSE /\ err' = UpdateException(1, <<"No payload found">>)
               /\ wpc' = "raised"
               /\ update_url' = update_url
  /\ UNCHANGED <<worker_class, method, update, proxy_port, update_cache,
                 cmd_ran, tool_output, returncode, fail_directory>>
  /\ UNCHANGED <<use_delta_updates, src_image_path>>
  /\ UNCHANGED nonupdvars

\* RunUpdateCmd (au_worker.py lines 210-218): the command runs, printing
\* something and exiting with some code; a code other than 0 is raised as
\* UpdateException(returncode, 'Update failed').  VMAUWorker catches it to
\* call _HandleFail (vm_au_worker.py lines 105-109, 128-132); RealAUWorker
\* lets it go (real_au_worker.py lines 38, 51).
RunUpdateCmd ==
  /\ wpc = "RunUpdateCmd"
  /\ cmd_ran' = TRUE
  /\ tool_output' \in SeqUpTo(OutputLines, MaxLines)
  /\ returncode' \in {0, 1}
  /\ IF returncode' = 0
       THEN /\ wpc' = "returned"
            /\ err' = err
       ELSE /\ err' = UpdateException(returncode', <<"Update failed">>)
            /\ wpc' = IF worker_class = "VMAUWorker" THEN "HandleFail"
                                                     ELSE "raised"
  /\ UNCHANGED <<worker_class, method, update, proxy_port, update_cache,
                 update_url, fail_directory>>
  /\ UNCHANGED <<use_delta_updates, src_image_path, looked_up>>
  /\ UNCHANGED nonupdvars

\* VMAUWorker._HandleFail (vm_au_worker.py lines 65-85) and the raise that
\* follows it: the logs are copied and the disk image is moved to
\* fail_directory; a shutil.Error of either is logged and ignored.
VMHandleFail ==
  /\ wpc = "HandleFail"
  /\ fail_directory' \in {{"logs", "image"}, {"logs"}, {"image"}}
  /\ wpc' = "raised"
  /\ UNCHANGED <<worker_class, method, update, proxy_port, update_cache,
                 update_url, cmd_ran, tool_output, returncode, err>>
  /\ UNCHANGED <<use_delta_updates, src_image_path, looked_up>>
  /\ UNCHANGED nonupdvars

UpdNext ==
  \/ WorkerPerformUpdate
  \/ BuildCmd
  \/ AppendUpdateFlags
  \/ RunUpdateCmd
  \/ VMHandleFail

\* =========================================================================
\*   cros_generate_test_payloads.py: GeneratePayloads, DumpCacheToDisk, main
\* =========================================================================
\* The payloads GeneratePayloadRequirements can ask for (lines 186-213): the
\* delta from the base and the one from the target itself for a VM, and the
\* archived delta and full payload of nplus1.  Their strings differ, so the
\* set self.payloads keeps them all, and so do their identifiers.
Required ==
  << [target |-> <<"a">>, base |-> <<"b">>, key |-> None, for_vm |-> TRUE,
      archive |-> FALSE],
     [target |-> <<"a">>, base |-> <<"a">>, key |-> None, for_vm |-> TRUE,
      archive |-> FALSE],
     [target |-> <<"a">>, base |-> <<"b">>, key |-> None, for_vm |-> FALSE,
      archive |-> TRUE],
     [target |-> <<"a">>, base |-> None, key |-> None, for_vm |-> FALSE,
      archive |-> TRUE] >>

\* The smaller of two numbers.
Min(a, b) == IF a < b THEN a ELSE b

\* What the devserver can name after PREGENERATED_UPDATE=: the update.gz of
\* a cache directory, or a path with no directory before update.gz.
UpdatePaths ==
  {<<"cache/l1", "/update.gz">>, <<"cache/l2", "/update.gz">>, <<"update.gz">>}

\* A line of a log: the key line of line 288 with its path, or another line.
KeyLine(path) == <<"PREGENERATED_UPDATE=">> \o path

LogLines == {<<"INFO">>} \cup {KeyLine(path) : path \in UpdatePaths}

\* The logs a devserver run can leave.
Logs == SeqUpTo(LogLines, MaxLogLines)

\* key_line_re.search(line) (lines 288, 293).
IsKeyLine(line) == Len(line) > 1 /\ line[1] = "PREGENERATED_UPDATE="

\* match.group(1).rstrip().rpartition('/update.gz')[0] (lines 296-298).
PathToUpdateDir(line) ==
  LET path_to_update_gz == Tail(line)
  IN IF path_to_update_gz[Len(path_to_update_gz)] = "/update.gz"
       THEN SubSeq(path_to_update_gz, 1, Len(path_to_update_gz) - 1)
       ELSE <<>>

\* The loop over the lines of one log (lines 292-313), from line k on: the
\* entry of the first key line, or the exception raised.
RECURSIVE ProcessLog(_, _)
ProcessLog(log, k) ==
  IF k > Len(log)
    THEN [raised |-> "InvalidDevserverOutput", entry |-> <<>>]
    ELSE IF IsKeyLine(log[k])
           THEN IF PathToUpdateDir(log[k]) = <<>>
                  THEN [raised |-> "PayloadGenerationException",
                        entry |-> <<>>]
                  ELSE [raised |-> "None",
                        entry |-> <<"update">> \o PathToUpdateDir(log[k])]
           ELSE ProcessLog(log, k + 1)

\* ProcessOutput (lines 273-315) from log k on, return_array being what the
\* logs before it gave.
RECURSIVE ProcessOutput(_, _, _)
ProcessOutput(logs, k, return_array) ==
  IF k > Len(logs)
    THEN [raised |-> "None", return_array |-> return_array]
    ELSE LET r == ProcessLog(logs[k], 1)
         IN IF r.raised # "None"
              THEN [raised |-> r.raised, return_array |-> <<>>]
              ELSE ProcessOutput(logs, k + 1, Append(return_array, r.entry))

\* main has made the generator and its payload requirements (lines 485-487).
GenInit ==
  /\ genpc = "GeneratePayloads"
  /\ \E n \in 0..Min(MaxUpdates, Len(Required)) :
       payloads = SubSeq(Required, 1, n)
  /\ suite \in BOOLEAN
  /\ nplus1_archive_dir \in BOOLEAN
  /\ job_failed = {}
  /\ log_files = <<>>
  /\ path_results = <<>>
  /\ index = 0
  /\ cache_dictionary = <<>>
  /\ cache = <<>>
  /\ cache_file = <<>>
  /\ gen_err = "None"

\* RunParallelSteps that takes no notice of a job that failed.
GenerateInParallelAnyway ==
  /\ genpc = "GeneratePayloads"
  /\ \E failed \in SUBSET (1..Len(payloads)),
        logs \in [1..Len(payloads) -> Logs] :
       /\ job_failed' = failed
       /\ log_files' = logs
       /\ genpc' = "ProcessOutput"
       /\ gen_err' = gen_err
  /\ UNCHANGED <<payloads, suite, nplus1_archive_dir, path_results, index,
                 cache_dictionary, cache, cache_file>>
  /\ UNCHANGED nongenvars

\* One job and one log file for each payload, run in parallel (lines
\* 317-334): GeneratePayload raises when the devserver fails or times out
\* (lines 261-271), and RunParallelSteps then raises BackgroundFailure, which
\* becomes PayloadGenerationException.
GenerateInParallel ==
  /\ genpc = "GeneratePayloads"
  /\ \E failed \in SUBSET (1..Len(payloads)),
        logs \in [1..Len(payloads) -> Logs] :
       /\ job_failed' = failed
       /\ log_files' = logs
       /\ IF failed # {}
            THEN /\ gen_err' = "PayloadGenerationException"
                 /\ genpc' = "raised"
            ELSE /\ gen_err' = gen_err
                 /\ genpc' = "ProcessOutput"
  /\ UNCHANGED <<payloads, suite, nplus1_archive_dir, path_results, index,
                 cache_dictionary, cache, cache_file>>
  /\ UNCHANGED nongenvars

\* results = ProcessOutput(log_files) (line 336), outside any try.
ProcessOutputLogs ==
  /\ genpc = "ProcessOutput"
  /\ LET r == ProcessOutput(log_files, 1, <<>>)
     IN IF r.raised # "None"
          THEN /\ gen_err' = r.raised
               /\ genpc' = "raised"
               /\ path_results' = path_results
          ELSE /\ path_results' = r.return_array
               /\ genpc' = "cache_dictionary"
               /\ gen_err' = gen_err
  /\ UNCHANGED <<payloads, suite, nplus1_archive_dir, job_failed, log_files,
                 index, cache_dictionary, cache, cache_file>>
  /\ UNCHANGED nongenvars

\* One round of the loop of lines 340-361: the entry of the payload, then
\* its archive copies, whose error leaves GeneratePayloads.
BuildEntry ==
  /\ genpc = "cache_dictionary"
  /\ index < Len(payloads)
  /\ LET payload == payloads[index + 1]
         update_path == path_results[index + 1]
     IN /\ cache_dictionary' =
             [u \in DOMAIN cache_dictionary \cup {UpdateId(payload)} |->
                IF u = UpdateId(payload) THEN update_path
                                         ELSE cache_dictionary[u]]
        /\ \/ /\ index' = index + 1
              /\ UNCHANGED <<genpc, gen_err>>
           \/ /\ payload.archive /\ nplus1_archive_dir
              /\ gen_err' = "IOError"
              /\ genpc' = "raised"
              /\ index' = index
  /\ UNCHANGED <<payloads, suite, nplus1_archive_dir, job_failed, log_files,
                 path_results, cache, cache_file>>
  /\ UNCHANGED nongenvars

\* return cache_dictionary (line 363) into cache of main (line 488).
ReturnCache ==
  /\ genpc = "cache_dictionary"
  /\ index = Len(payloads)
  /\ cache' = <<cache_dictionary>>
  /\ genpc' = "DumpCacheToDisk"
  /\ UNCHANGED <<payloads, suite, nplus1_archive_dir, job_failed, log_files,
                 path_results, index, cache_dictionary, cache_file, gen_err>>
  /\ UNCHANGED nongenvars

\* DumpCacheToDisk (lines 365-376), which main calls with what
\* GeneratePayloads returned (line 489).
DumpCacheToDisk ==
  /\ genpc = "DumpCacheToDisk"
  /\ cache_file' = IF suite THEN cache ELSE cache_file
  /\ genpc' = "done"
  /\ UNCHANGED <<payloads, suite, nplus1_archive_dir, job_failed, log_files,
                 path_results, index, cache_dictionary, cache, gen_err>>
  /\ UNCHANGED nongenvars

GenNext ==
  \/ GenerateInParallel
  \/ ProcessOutputLogs
  \/ BuildEntry
  \/ ReturnCache
  \/ DumpCacheToDisk

\* =========================================================================
\*   au_worker.py: AssertEnoughTestsPassed, _ParseGenerateTestReportOutput
\* =========================================================================
\* A line is the sequence of the fields split() gives, and a field the
\* sequence of its pieces: parentheses, the percent sign, and the text
\* between them.  The percentages a report can hold:
Percents == {"0", "50", "100"}

\* 'Total PASS: m/n (p%)'.
TotalLine(p) == <<<<"Total">>, <<"PASS:">>, <<"m/n">>, <<"(", p, "%", ")">>>>

\* The lines of a report: the result of one test, the total, a total cut
\* short, and a total with no number.
ReportLines ==
  {<<<<"test">>, <<"PASS">>>>, <<<<"Total">>, <<"PASS:">>>>,
   <<<<"Total">>, <<"PASS:">>, <<"m/n">>, <<"(", "n/a", ")">>>>}
    \cup {TotalLine(p) : p \in Percents}

\* line.startswith('Total PASS:') (line 303).
StartsWithTotalPass(line) ==
  Len(line) >= 2 /\ line[1] = <<"Total">> /\ line[2] = <<"PASS:">>

\* field.strip('()%') (line 305): the pieces "(", ")" and "%" at either end
\* are dropped.
RECURSIVE LStrip(_)
LStrip(field) ==
  IF field # <<>> /\ Head(field) \in {"(", ")", "%"}
    THEN LStrip(Tail(field)) ELSE field

RECURSIVE RStrip(_)
RStrip(field) ==
  IF field # <<>> /\ field[Len(field)] \in {"(", ")", "%"}
    THEN RStrip(SubSeq(field, 1, Len(field) - 1)) ELSE field

Strip(field) == RStrip(LStrip(field))

\* int(text) of a decimal text (line 308).
PyInt(text) ==
  CASE text = "0" -> 0
    [] text = "50" -> 50
    [] text = "100" -> 100

\* The loop of lines 302-306 without its break: the last line that starts
\* with 'Total PASS:' gives the percentage.
ParseGenerateTestReportOutputNoBreak(lines, k) ==
  LET totals == {j \in k..Len(lines) : StartsWithTotalPass(lines[j])}
  IN IF totals = {}
       THEN [raised |-> "None", percent |-> 0]
       ELSE LET last == CHOOSE j \in totals : \A m \in totals : m <= j
            IN IF Len(lines[last]) < 4
                 THEN [raised |-> "IndexError", percent |-> 0]
                 ELSE LET text == Strip(lines[last][4])
                      IN IF Len(text) = 1 /\ text[1] \in Percents
                           THEN [raised |-> "None",
                                 percent |-> PyInt(text[1])]
                           ELSE [raised |-> "ValueError", percent |-> 0]

\* The loop of lines 302-306 from line k on and the int of line 308: the
\* percentage returned, or the exception raised.
RECURSIVE ParseGenerateTestReportOutput(_, _)
ParseGenerateTestReportOutput(lines, k) ==
  IF k > Len(lines)
    THEN [raised |-> "None", percent |-> 0]
    ELSE IF StartsWithTotalPass(lines[k])
           THEN IF Len(lines[k]) < 4
                  THEN [raised |-> "IndexError", percent |-> 0]
                  ELSE LET text == Strip(lines[k][4])
                       IN IF Len(text) = 1 /\ text[1] \in Percents
                            THEN [raised |-> "None",
                                  percent |-> PyInt(text[1])]
                            ELSE [raised |-> "ValueError", percent |-> 0]
           ELSE ParseGenerateTestReportOutput(lines, k + 1)

\* The percentages a scenario can require.
RequiredPercents == {0, 50, 100}

\* The classes of worker that verify an image.
Verifiers == {"RealAUWorker", "VMAUWorker", "GCEAUWorker"}

\* VerifyImage is called on a worker whose test run prints test_output.
VfyInit ==
  /\ vpc = "VerifyImage"
  /\ verifier \in Verifiers
  /\ verify_tests \in IF verifier = "GCEAUWorker" THEN 0..MaxTests ELSE {1}
  /\ test_output \in SeqUpTo(ReportLines, MaxLines)
  /\ percent_required_to_pass \in RequiredPercents
  /\ percent_passed = <<>>
  /\ returned_percent = <<>>
  /\ verified = <<>>
  /\ verify_err = "None"

\* RealAUWorker.VerifyImage (real_au_worker.py lines 53-69) runs test_that
\* and calls AssertEnoughTestsPassed:
\* percent_passed = self._ParseGenerateTestReportOutput(output) (line 231).
ParseOutput ==
  /\ vpc = "VerifyImage"
  /\ verifier = "RealAUWorker"
  /\ LET r == ParseGenerateTestReportOutput(test_output, 1)
     IN IF r.raised # "None"
          THEN /\ verify_err' = r.raised
               /\ vpc' = "raised"
               /\ percent_passed' = percent_passed
          ELSE /\ percent_passed' = <<r.percent>>
               /\ vpc' = "compare"
               /\ verify_err' = verify_err
  /\ UNCHANGED <<verifier, verify_tests, test_output,
                 percent_required_to_pass, returned_percent, verified>>
  /\ UNCHANGED nonvfyvars

\* The comparison with the percentage required (lines 234-239):
\* unittest.fail raises the test's failure.
CompareToRequired ==
  /\ vpc = "compare"
  /\ IF percent_passed[1] < percent_required_to_pass
       THEN /\ verify_err' = "AssertionError"
            /\ vpc' = "raised"
            /\ returned_percent' = returned_percent
       ELSE /\ returned_percent' = percent_passed
            /\ vpc' = "returned"
            /\ verify_err' = verify_err
  /\ UNCHANGED <<verifier, verify_tests, test_output,
                 percent_required_to_pass, percent_passed, verified>>
  /\ UNCHANGED nonvfyvars

\* VMAUWorker.VerifyImage (vm_au_worker.py lines 148-183) takes no
\* percentage and reads none: it returns whether cros_run_vm_test exited
\* with 0.
VMVerifyImage ==
  /\ vpc = "VerifyImage"
  /\ verifier = "VMAUWorker"
  /\ \E result_returncode \in {0, 1} :
       verified' = <<result_returncode = 0>>
  /\ vpc' = "returned"
  /\ UNCHANGED <<verifier, verify_tests, test_output,
                 percent_required_to_pass, percent_passed, returned_percent,
                 verify_err>>
  /\ UNCHANGED nonvfyvars

\* GCEAUWorker.VerifyImage (gce_au_worker.py lines 167-207): one _RunTest
\* for each test in parallel.  _RunTest (lines 211-248) runs test_that only
\* under "if self.ssh_private_key is not None" and then calls
\* self.ParseGeneratedTestOutput, which no class defines, so every step
\* raises and RunParallelSteps raises BackgroundFailure; with no test there
\* is no step and passed stays True.
GCEVerifyImage ==
  /\ vpc = "VerifyImage"
  /\ verifier = "GCEAUWorker"
  /\ IF verify_tests = 0
       THEN /\ verified' = <<TRUE>>
            /\ vpc' = "returned"
            /\ verify_err' = verify_err
       ELSE /\ verify_err' = "BackgroundFailure"
            /\ vpc' = "raised"
            /\ verified' = verified
  /\ UNCHANGED <<verifier, verify_tests, test_output,
                 percent_required_to_pass, percent_passed, returned_percent>>
  /\ UNCHANGED nonvfyvars

VfyNext ==
  \/ ParseOutput
  \/ CompareToRequired
  \/ VMVerifyImage
  \/ GCEVerifyImage

\* =========================================================================
\*   vm_au_worker.py: PrepareBase, the commands run on the VM, CleanUp
\* =========================================================================
\* The VMAUWorkers of the scenarios that run in parallel, each with the ssh
\* port of its own Initialize and so its own /tmp/kvm.<port> (au_worker.py
\* lines 253-254).
Workers == 1..MaxWorkers

\* A path: its directory, its file name and, for a temporary file, the
\* number that stands for the random part mkstemp puts in the name.
NoPath == [dir |-> "None", name |-> "None", n |-> 0]

\* PrepareVMBase (au_worker.py lines 159-167): the VM image next to the base
\* image, which every scenario on that image shares.
PrepareVMBase(signed_base) ==
  [dir |-> "image_dir",
   name |-> IF signed_base THEN "chromiumos_qemu_image.bin.signed"
                           ELSE "chromiumos_qemu_image.bin",
   n |-> 0]

\* tempfile.mkstemp(prefix=VM_DISK_PREFIX + '.') (vm_au_worker.py lines
\* 53-54): a file that did not exist, its random name taken as one that was
\* never given before.
PrivatePath(k) == [dir |-> "tmp", name |-> "VM_DISK_PREFIX.", n |-> k]

\* Every scenario has made and initialized its worker (au_test.py setUp).
VmInit ==
  /\ vmpc = [w \in Workers |-> "initialized"]
  /\ vm_image_path = [w \in Workers |-> NoPath]
  /\ original_image_path = [w \in Workers |-> NoPath]
  /\ used_image_paths = [w \in Workers |-> {}]
  /\ kvm_pid_file = [w \in Workers |-> FALSE]
  /\ tmp_count = 0

\* PrepareBase that runs the VM on the shared image.
PrepareBaseShared(w) ==
  /\ vmpc[w] \in {"initialized", "prepared"}
  /\ tmp_count < MaxPrepares
  /\ \E signed_base \in BOOLEAN :
       /\ tmp_count' = tmp_count + 1
       /\ vm_image_path' =
            [vm_image_path EXCEPT ![w] = PrepareVMBase(signed_base)]
       /\ original_image_path' =
            [original_image_path EXCEPT ![w] = PrepareVMBase(signed_base)]
       /\ vmpc' = [vmpc EXCEPT ![w] = "prepared"]
  /\ UNCHANGED <<used_image_paths, kvm_pid_file>>
  /\ UNCHANGED nonvmvars

\* PrepareBase (vm_au_worker.py lines 47-63): PrepareVMBase names the shared
\* image, mkstemp a new file, and the copy of the one to the other becomes
\* self.vm_image_path; the shared path is returned.  A copy that fails leaves
\* PrepareBase with its error and self.vm_image_path at the shared image.
PrepareBase(w) ==
  /\ vmpc[w] \in {"initialized", "prepared"}
  /\ tmp_count < MaxPrepares
  /\ \E signed_base \in BOOLEAN :
       /\ tmp_count' = tmp_count + 1
       /\ \/ /\ vm_image_path' =
                  [vm_image_path EXCEPT ![w] = PrivatePath(tmp_count + 1)]
             /\ original_image_path' =
                  [original_image_path EXCEPT
                     ![w] = PrepareVMBase(signed_base)]
             /\ vmpc' = [vmpc EXCEPT ![w] = "prepared"]
          \/ /\ vm_image_path' =
                  [vm_image_path EXCEPT ![w] = PrepareVMBase(signed_base)]
             /\ original_image_path' =
                  [original_image_path EXCEPT ![w] = NoPath]
             /\ vmpc' = [vmpc EXCEPT ![w] = "failed"]
  /\ UNCHANGED <<used_image_paths, kvm_pid_file>>
  /\ UNCHANGED nonvmvars

\* UpdateImage, UpdateUsingPayload or VerifyImage (lines 87-183) of a
\* prepared worker: the command gets self.vm_image_path and
\* self._kvm_pid_file and starts the VM if it does not run.  When the command
\* fails, _HandleFail (lines 65-85) stops the VM, whatever comes of that, and
\* moves the image to the fail directory; the scenario then ends.
RunOnVM(w) ==
  /\ vmpc[w] = "prepared"
  /\ used_image_paths' =
       [used_image_paths EXCEPT ![w] = @ \cup {vm_image_path[w]}]
  /\ \/ /\ kvm_pid_file' = [kvm_pid_file EXCEPT ![w] = TRUE]
        /\ vmpc' = vmpc
     \/ /\ \E exists \in BOOLEAN :
             kvm_pid_file' = [kvm_pid_file EXCEPT ![w] = exists]
        /\ vmpc' = [vmpc EXCEPT ![w] = "failed"]
  /\ UNCHANGED <<vm_image_path, original_image_path, tmp_count>>
  /\ UNCHANGED nonvmvars

\* CleanUp (lines 43-45), called by tearDown: _KillExistingVM (lines 31-41)
\* returns at once when the file does not exist and otherwise runs
\* cros_stop_vm with error_code_ok=True, so that CleanUp returns whether or
\* not the VM stopped and the file went.
VMCleanUp(w) ==
  /\ vmpc[w] \in {"initialized", "prepared", "failed"}
  /\ IF ~kvm_pid_file[w]
       THEN kvm_pid_file' = kvm_pid_file
       ELSE \E exists \in BOOLEAN :
              kvm_pid_file' = [kvm_pid_file EXCEPT ![w] = exists]
  /\ vmpc' = [vmpc EXCEPT ![w] = "cleaned"]
  /\ UNCHANGED <<vm_image_path, original_image_path, used_image_paths,
                 tmp_count>>
  /\ UNCHANGED nonvmvars

VMPrepareBase == \E w \in Workers : PrepareBase(w)

VMRun == \E w \in Workers : RunOnVM(w)

VMCleanUpAny == \E w \in Workers : VMCleanUp(w)

VmNext == VMPrepareBase \/ VMRun \/ VMCleanUpAny

\* =========================================================================
\*        cros_au_test_harness.py: _RunTestsInParallel
\* =========================================================================
\* Each job is unittest.TextTestRunner().run on one test of the suite
\* (lines 173-177).  A job that returns has posted its TestResult, which
\* JobResult names by the job; a test that crashes the runner or never ends
\* has no successful result.
HarnessInit ==
  /\ harnesspc = "RunParallelJobs"
  /\ was_successful \in [DOMAIN jobs -> BOOLEAN]
  /\ \A j \in DOMAIN jobs : jobs[j] # "ret" => ~was_successful[j]

\* test_result.wasSuccessful() of line 182 for a result that is not None.
wasSuccessful(test_result) == was_successful[test_result]

\* CheckResults as it would be if only the scenarios' verdicts were looked at.
CheckResultsSkippingNone ==
  /\ harnesspc = "RunParallelJobs"
  /\ mainpc = "returned"
  /\ harnesspc' =
       IF \E i \in DOMAIN results :
            results[i] # NoneValue /\ ~wasSuccessful(results[i])
         THEN "died"
         ELSE "finished"
  /\ UNCHANGED was_successful
  /\ UNCHANGED nonharnessvars

\* Lines 180-189: RunParallelJobs has returned the results, and the loop
\* calls cros_lib.Die at the first that is None or not successful; without
\* one the function returns.
CheckResults ==
  /\ harnesspc = "RunParallelJobs"
  /\ mainpc = "returned"
  /\ harnesspc' =
       IF \E i \in DOMAIN results :
            results[i] = NoneValue \/ ~wasSuccessful(results[i])
         THEN "died"
         ELSE "finished"
  /\ UNCHANGED was_successful
  /\ UNCHANGED nonharnessvars

\* Line 180: RunParallelJobs raises (the timeout of the batch, or the error
\* of GetCurrentActiveCount for an empty suite), and nothing of
\* _RunTestsInParallel catches it.
RunParallelJobsRaised ==
  /\ harnesspc = "RunParallelJobs"
  /\ mainpc \in {"assert_failed", "timeout_raised", "unbound_error"}
  /\ harnesspc' = "raised"
  /\ UNCHANGED was_successful
  /\ UNCHANGED nonharnessvars

HarnessNext ==
  \/ MainStep
  \/ JobStep
  \/ Tick
  \/ CheckResults
  \/ RunParallelJobsRaised

\* =========================================================================
\*        lib/gce.py: GceContext._WaitForOperation
\* =========================================================================
\* What CreateInstance (lines 187-193) and CreateImage (lines 226-231) pass as
\* timeout_handler, and the default of the other callers.
TimeoutHandlers == {"None", "DeleteInstance", "DeleteImage"}

\* _WaitForOperation is called (lines 354-355) for an operation that has
\* just been requested.
WaitInit ==
  /\ waitpc = "poll"
  /\ timeout_handler \in TimeoutHandlers
  /\ op_status = "PENDING"
  /\ polls = 0
  /\ handler_called = FALSE
  /\ wait_result = "none"

\* The operation goes on in the project, whether or not anybody waits for
\* it, and ends with or without an error.
OperationProgress ==
  /\ \/ op_status = "PENDING" /\ op_status' = "RUNNING"
     \/ op_status = "RUNNING" /\ op_status' \in {"DONE", "DONE_error"}
  /\ UNCHANGED <<waitpc, timeout_handler, polls, handler_called, wait_result>>
  /\ UNCHANGED nonwaitvars

\* Lines 366-377: one call of _IsDone by WaitForReturnTrue.  A status DONE
\* ends the wait, with Error when the result has an error; otherwise the
\* next call follows after the period, or the timeout is up.
IsDone ==
  /\ waitpc = "poll"
  /\ polls < MaxPolls
  /\ polls' = polls + 1
  /\ IF op_status = "DONE"
       THEN waitpc' = "returned" /\ wait_result' = "returned"
       ELSE IF op_status = "DONE_error"
         THEN waitpc' = "raised" /\ wait_result' = "Error"
         ELSE waitpc' \in {"poll", "except"} /\ wait_result' = wait_result
  /\ polls' = MaxPolls => waitpc' # "poll"
  /\ UNCHANGED <<timeout_handler, op_status, handler_called>>
  /\ UNCHANGED nonwaitvars

\* Lines 378-381, the handler of timeout_util.TimeoutError: line 379 tests
\* "not timeout_handler", so line 380 is reached only when there is no
\* handler, and calling None raises TypeError; with a handler line 380 is
\* skipped and Error is raised.
HandleTimeout ==
  /\ waitpc = "except"
  /\ handler_called' = handler_called
  /\ wait_result' = IF timeout_handler = "None" THEN "TypeError" ELSE "Error"
  /\ waitpc' = "raised"
  /\ UNCHANGED <<timeout_handler, op_status, polls>>
  /\ UNCHANGED nonwaitvars

WaitNext ==
  \/ OperationProgress
  \/ IsDone
  \/ HandleTimeout

\* =========================================================================
\*        au_worker.py: Initialize and GetNextResultsPath
\* =========================================================================
\* The tests that call Initialize (au_test.py lines 99-256) and the labels
\* the workers ask directories for.
TestNames == {"testUpdateKeepStateful", "testUpdateWipeStateful"}

Labels == {"update", "autotest_tests"}

\* os.path.join(root, test_name, '%s_%s' % (count, label)): the count is
\* written in digits and the label follows the first underscore, so the last
\* component is the pair of the two.
ResultsPath(root, name, count, label) == <<root, name, <<count, label>>>>

\* The worker after __init__ (lines 26-38): Initialize has not been called,
\* and there is no results_count yet.
ResInit ==
  /\ test_name = "None"
  /\ results_count = NoneValue
  /\ returned_paths = <<>>
  /\ made_dirs = {}
  /\ path_calls = 0

\* Initialize (lines 244-262), called first by every test: the directories
\* of the test are named after it and the counter starts at 0.
Initialize(name) ==
  /\ path_calls < MaxPathCalls
  /\ path_calls' = path_calls + 1
  /\ test_name' = name
  /\ results_count' = 0
  /\ returned_paths' = <<>>
  /\ UNCHANGED made_dirs
  /\ UNCHANGED nonresvars

\* GetNextResultsPath without the increment of line 280.
GetNextResultsPathSameCount(label) ==
  /\ test_name # "None"
  /\ path_calls < MaxPathCalls
  /\ path_calls' = path_calls + 1
  /\ results_count' = results_count
  /\ returned_paths' =
       Append(returned_paths,
              [results_dir |-> ResultsPath("all", test_name, results_count', label),
               fail_dir |-> ResultsPath("failed", test_name, results_count', label)])
  /\ made_dirs' = made_dirs \cup {ResultsPath("all", test_name, results_count', label)}
  /\ UNCHANGED test_name
  /\ UNCHANGED nonresvars

\* GetNextResultsPath (lines 264-288): the counter is incremented, the two
\* directories are named with it, and the results directory is made when it
\* is not there.
GetNextResultsPath(label) ==
  /\ test_name # "None"
  /\ path_calls < MaxPathCalls
  /\ path_calls' = path_calls + 1
  /\ results_count' = results_count + 1
  /\ returned_paths' =
       Append(returned_paths,
              [results_dir |-> ResultsPath("all", test_name, results_count', label),
               fail_dir |-> ResultsPath("failed", test_name, results_count', label)])
  /\ made_dirs' = made_dirs \cup {ResultsPath("all", test_name, results_count', label)}
  /\ UNCHANGED test_name
  /\ UNCHANGED nonresvars

ResNext ==
  \/ \E name \in TestNames : Initialize(name)
  \/ \E label \in Labels : GetNextResultsPath(label)

\* =========================================================================
\*   lib/image_extractor.py: GetLatestImage
\* =========================================================================

\* A file name is the sequence of its pieces: the runs of digits, with their
\* value, and the other characters, with their code.
Num(n) == <<0, n>>

Str(c) == <<1, c>>

IsNum(piece) == piece[1] = 0

LetterR == Str(82)

LetterA == Str(97)

LetterB == Str(98)

Dash == Str(45)

Dot == Str(46)

\* R16-158.0.<n>-a1, the names image_extractor_unittest.py gives its entries
\* (line 75).
ArchiveName(n) ==
  <<LetterR, Num(16), Dash, Num(158), Dot, Num(0), Dot, Num(n),
    Dash, LetterA, Num(1)>>

\* R16-158.0.<n>-a1-b<m>, the names with a build number (lines 75, 122).
BuildName(n, m) == ArchiveName(n) \o <<Dash, LetterB, Num(m)>>

\* 0-158.0.1-a1, the old style entry of the tests (line 93).
OldName == <<Num(0), Dash, Num(158), Dot, Num(0), Dot, Num(1), Dash, LetterA, Num(1)>>

VersionedNames ==
  {ArchiveName(n) : n \in 0..MaxVersion}
    \cup {BuildName(n, m) : n \in 0..MaxVersion, m \in 0..MaxBuild}

Filenames == VersionedNames \cup {OldName}

\* The state of <entry>/image.zip.
ZipStates == {"missing", "corrupt", "valid"}

\* None, where a path is returned otherwise.
NoImage == <<>>

\* distutils.version.LooseVersion (lines 64, 66): the pieces of the name
\* without the dots, the runs of digits as numbers.
LooseVersion(vstring) == SelectSeq(vstring, LAMBDA piece : piece # Dot)

\* The order of two pieces: numbers by value, strings by their characters,
\* and a number before a string.
PieceLess(p, q) == p[1] < q[1] \/ (p[1] = q[1] /\ p[2] < q[2])

\* lv < target_lv (line 69): the order of the two lists of pieces, the first
\* difference deciding and a proper prefix being less.
RECURSIVE VersionLess(_, _)
VersionLess(v, w) ==
  IF w = <<>> THEN FALSE
  ELSE IF v = <<>> THEN TRUE
  ELSE IF Head(v) = Head(w) THEN VersionLess(Tail(v), Tail(w))
  ELSE PieceLess(Head(v), Head(w))

\* my_re.match(filename) (lines 62, 67): R, digits, a dash and three numbers
\* between dots, at the start of the name.
MyReMatch(filename) ==
  /\ Len(filename) >= 8
  /\ filename[1] = LetterR
  /\ IsNum(filename[2])
  /\ filename[3] = Dash
  /\ IsNum(filename[4])
  /\ filename[5] = Dot
  /\ IsNum(filename[6])
  /\ filename[7] = Dot
  /\ IsNum(filename[8])

\* ValidateZip (lines 32-49).
ValidateZip(zip_image) == zip_image = "valid"

\* max(filelist) (line 78).
MaxVersionOf(versions) ==
  CHOOSE f \in versions :
    \A g \in versions : ~VersionLess(LooseVersion(f), LooseVersion(g))

\* An extractor for an archive directory that may not exist and holds at
\* most MaxEntries entries, and a version under test.
ImgInit ==
  /\ imgpc = "start"
  /\ archive_exists \in BOOLEAN
  /\ \E names \in SUBSET Filenames :
       /\ Cardinality(names) <= MaxEntries
       /\ archive_exists \/ names = {}
       /\ archive \in [names -> ZipStates]
  /\ target_version \in VersionedNames
  /\ filelist = {}
  /\ latest_image = NoImage

\* The loop of GetLatestImage with a test of lv <= target_lv on line 69.
ListArchiveUpToTarget ==
  /\ imgpc = "start"
  /\ IF archive_exists
       THEN /\ filelist' =
                 {filename \in DOMAIN archive :
                    /\ MyReMatch(filename)
                    /\ ~VersionLess(LooseVersion(target_version),
                                    LooseVersion(filename))
                    /\ archive[filename] # "missing"
                    /\ ValidateZip(archive[filename])}
            /\ imgpc' = "listed"
       ELSE /\ filelist' = filelist
            /\ imgpc' = "none"
  /\ UNCHANGED <<archive_exists, archive, target_version, latest_image>>
  /\ UNCHANGED nonimgvars

\* Lines 61-76: the entries of the archive whose name matches, whose version
\* is lower than the target's and whose image.zip exists and is valid.
ListArchive ==
  /\ imgpc = "start"
  /\ IF archive_exists
       THEN /\ filelist' =
                 {filename \in DOMAIN archive :
                    /\ MyReMatch(filename)
                    /\ VersionLess(LooseVersion(filename),
                                   LooseVersion(target_version))
                    /\ archive[filename] # "missing"
                    /\ ValidateZip(archive[filename])}
            /\ imgpc' = "listed"
       ELSE /\ filelist' = filelist
            /\ imgpc' = "none"
  /\ UNCHANGED <<archive_exists, archive, target_version, latest_image>>
  /\ UNCHANGED nonimgvars

\* Lines 77-78: the entry of the greatest version kept, if any was.
ReturnLatest ==
  /\ imgpc = "listed"
  /\ IF filelist # {}
       THEN latest_image' = MaxVersionOf(filelist) /\ imgpc' = "returned"
       ELSE latest_image' = latest_image /\ imgpc' = "none"
  /\ UNCHANGED <<archive_exists, archive, target_version, filelist>>
  /\ UNCHANGED nonimgvars

\* Lines 80-81.
ReturnNone ==
  /\ imgpc = "none"
  /\ latest_image' = NoImage
  /\ imgpc' = "returned"
  /\ UNCHANGED <<archive_exists, archive, target_version, filelist>>
  /\ UNCHANGED nonimgvars

ImgNext == ListArchive \/ ReturnLatest \/ ReturnNone

\* =========================================================================
\*   lib/image_extractor.py: UnzipImage
\* =========================================================================

\* image.zip of the entry: absent, a zip without the image to extract, or a
\* zip with it (image_extractor_unittest.py lines 46-64).
ZipContents == {"missing", "without_image", "with_image"}

\* cached_image (lines 103-106): the image to extract under the directory
\* that SRC_ARCHIVE_DIR has for the version.
CachedImage(dir) == <<dir>>

\* os.path.exists(cached_image) (line 108).
CachedImageExists ==
  /\ src_archive_exists
  /\ image_dir \in DOMAIN cached_images
  /\ cached_images[image_dir]

\* An entry to unzip, and a SRC_ARCHIVE_DIR that is absent, empty or holds
\* what an earlier call has unzipped.
UnzipInit ==
  /\ unzippc = "start"
  /\ image_dir \in VersionedNames
  /\ zip_content \in ZipContents
  /\ src_archive_exists \in BOOLEAN
  /\ \E dirs \in SUBSET VersionedNames :
       /\ Cardinality(dirs) <= 1
       /\ src_archive_exists \/ dirs = {}
       /\ cached_images \in [dirs -> BOOLEAN]
  /\ image_returned = NoImage

\* Lines 103-110: an image unzipped earlier is used again.
CheckCached ==
  /\ unzippc = "start"
  /\ unzippc' = IF CachedImageExists THEN "return" ELSE "clean"
  /\ UNCHANGED <<image_dir, zip_content, src_archive_exists, cached_images,
                 image_returned>>
  /\ UNCHANGED nonunzipvars

\* Lines 113-118: what was archived before is removed and the directory of
\* the version is made.
RemoveAndMakeDirs ==
  /\ unzippc = "clean"
  /\ src_archive_exists' = TRUE
  /\ cached_images' = [dir \in {image_dir} |-> FALSE]
  /\ unzippc' = "unzip"
  /\ UNCHANGED <<image_dir, zip_content, image_returned>>
  /\ UNCHANGED nonunzipvars

\* Lines 119-122: unzip extracts what the zip holds into the directory;
\* RunCommand raises when unzip fails, as it does without a zip.
RunUnzip ==
  /\ unzippc = "unzip"
  /\ IF zip_content = "missing"
       THEN unzippc' = "raised" /\ cached_images' = cached_images
       ELSE /\ unzippc' = "return"
            /\ cached_images' =
                 [cached_images EXCEPT ![image_dir] = zip_content = "with_image"]
  /\ UNCHANGED <<image_dir, zip_content, src_archive_exists, image_returned>>
  /\ UNCHANGED nonunzipvars

\* Line 124.
ReturnCachedImage ==
  /\ unzippc = "return"
  /\ image_returned' = CachedImage(image_dir)
  /\ unzippc' = "returned"
  /\ UNCHANGED <<image_dir, zip_content, src_archive_exists, cached_images>>
  /\ UNCHANGED nonunzipvars

UnzipNext == CheckCached \/ RemoveAndMakeDirs \/ RunUnzip \/ ReturnCachedImage

\* =========================================================================
\*                     specifications
\* =========================================================================

\* The scheduler while no batch is run.
JobsIdle ==
  /\ number_of_simultaneous_jobs = 1
  /\ jobs = <<>>
  /\ jobs_args = 0
  /\ mainpc = "idle"
  /\ idx = 0
  /\ job_start_semaphore = 0
  /\ parallel_jobs = <<>>
  /\ output_array = <<>>
  /\ releases = <<>>
  /\ raised = <<>>
  /\ clock_started = FALSE
  /\ expired = FALSE
  /\ active_job = 0
  /\ results = <<>>
  /\ finished = <<>>

\* The proxy while no scenario uses it.
ProxyIdle ==
  /\ callerpc = "idle"
  /\ srvpc = "idle"
  /\ serving = FALSE
  /\ is_started = FALSE
  /\ is_shut_down = FALSE
  /\ port_bound = FALSE
  /\ port_taken = FALSE
  /\ backlog = 0
  /\ accepted = 0
  /\ clients = 0
  /\ rebind = "none"
  /\ update_raised = FALSE

\* The proxy while it has no connection.
RelayIdle ==
  /\ filter_kind = "AnyFilter"
  /\ hpc = <<>>
  /\ in_left = <<>>
  /\ out_left = <<>>
  /\ data = <<>>
  /\ fwd_in = <<>>
  /\ fwd_out = <<>>
  /\ vetoed = <<>>
  /\ open_socks = <<>>
  /\ close_count = 0
  /\ data_size = 0

\* The cloud worker while no scenario uses it.
GceIdle ==
  /\ gpc = "unused"
  /\ gcalls = 0
  /\ tests = 0
  /\ gnow = 1
  /\ ts = 0
  /\ tarball_remote = 0
  /\ image = 0
  /\ instances = <<>>
  /\ bg_delete_processes = <<>>
  /\ procs = <<>>
  /\ gcs = {}
  /\ images = {}
  /\ vms = {}
  /\ pending = {}
  /\ tracked_before = Tracked
  /\ made = NoResources
  /\ made_earlier = NoResources
  /\ delete_attempts = NoAttempts

\* GenerateUpdateId while nothing calls it.
IdIdle ==
  /\ idpc = "unused"
  /\ first = [target |-> <<>>, base |-> None, key |-> None, for_vm |-> FALSE]
  /\ second = [target |-> <<>>, base |-> None, key |-> None, for_vm |-> FALSE]
  /\ update_id = <<None, None>>
  /\ payload_str = <<None, None>>

\* The workers while no scenario updates anything.
UpdIdle ==
  /\ wpc = "unused"
  /\ worker_class = "VMAUWorker"
  /\ method = "UpdateImage"
  /\ update = [target |-> <<>>, base |-> <<>>, key |-> None]
  /\ proxy_port = 0
  /\ update_cache = <<>>
  /\ update_url = NoUrl
  /\ cmd_ran = FALSE
  /\ tool_output = <<>>
  /\ returncode = 0
  /\ err = NoException
  /\ fail_directory = {}
  /\ use_delta_updates = FALSE
  /\ src_image_path = <<>>
  /\ looked_up = None

\* The payload generator while main has not made it.
GenIdle ==
  /\ genpc = "unused"
  /\ payloads = <<>>
  /\ suite = FALSE
  /\ nplus1_archive_dir = FALSE
  /\ job_failed = {}
  /\ log_files = <<>>
  /\ path_results = <<>>
  /\ index = 0
  /\ cache_dictionary = <<>>
  /\ cache = <<>>
  /\ cache_file = <<>>
  /\ gen_err = "None"

\* The check of a test report while no image is verified.
VfyIdle ==
  /\ vpc = "unused"
  /\ verifier = "RealAUWorker"
  /\ verify_tests = 1
  /\ test_output = <<>>
  /\ percent_required_to_pass = 0
  /\ percent_passed = <<>>
  /\ returned_percent = <<>>
  /\ verified = <<>>
  /\ verify_err = "None"

\* The VM workers while no scenario has made one.
VmIdle ==
  /\ vmpc = <<>>
  /\ vm_image_path = <<>>
  /\ original_image_path = <<>>
  /\ used_image_paths = <<>>
  /\ kvm_pid_file = <<>>
  /\ tmp_count = 0

\* _RunTestsInParallel while nothing calls it.
HarnessIdle ==
  /\ harnesspc = "idle"
  /\ was_successful = <<>>

\* _WaitForOperation while nothing calls it.
WaitIdle ==
  /\ waitpc = "idle"
  /\ timeout_handler = "None"
  /\ op_status = "PENDING"
  /\ polls = 0
  /\ handler_called = FALSE
  /\ wait_result = "none"

\* The results directories while no worker exists.
ResIdle ==
  /\ test_name = "unused"
  /\ results_count = NoneValue
  /\ returned_paths = <<>>
  /\ made_dirs = {}
  /\ path_calls = 0

ImgIdle ==
  /\ imgpc = "unused"
  /\ archive_exists = FALSE
  /\ archive = <<>>
  /\ target_version = <<>>
  /\ filelist = {}
  /\ latest_image = <<>>

UnzipIdle ==
  /\ unzippc = "unused"
  /\ image_dir = <<>>
  /\ zip_content = "missing"
  /\ src_archive_exists = FALSE
  /\ cached_images = <<>>
  /\ image_returned = <<>>

Init == \/ JobsInit /\ ProxyIdle /\ RelayIdle /\ GceIdle /\ IdIdle /\ UpdIdle /\ GenIdle /\ VfyIdle /\ VmIdle /\ HarnessIdle /\ WaitIdle /\ ResIdle /\ ImgIdle /\ UnzipIdle
        \/ JobsIdle /\ ProxyInit /\ RelayIdle /\ GceIdle /\ IdIdle /\ UpdIdle /\ GenIdle /\ VfyIdle /\ VmIdle /\ HarnessIdle /\ WaitIdle /\ ResIdle /\ ImgIdle /\ UnzipIdle
        \/ JobsIdle /\ ProxyIdle /\ RelayInit /\ GceIdle /\ IdIdle /\ UpdIdle /\ GenIdle /\ VfyIdle /\ VmIdle /\ HarnessIdle /\ WaitIdle /\ ResIdle /\ ImgIdle /\ UnzipIdle
        \/ JobsIdle /\ ProxyIdle /\ InterruptInit /\ GceIdle /\ IdIdle /\ UpdIdle /\ GenIdle /\ VfyIdle /\ VmIdle /\ HarnessIdle /\ WaitIdle /\ ResIdle /\ ImgIdle /\ UnzipIdle
        \/ JobsIdle /\ ProxyIdle /\ RelayIdle /\ GceInit /\ IdIdle /\ UpdIdle /\ GenIdle /\ VfyIdle /\ VmIdle /\ HarnessIdle /\ WaitIdle /\ ResIdle /\ ImgIdle /\ UnzipIdle
        \/ JobsIdle /\ ProxyIdle /\ RelayIdle /\ GceIdle /\ IdInit /\ UpdIdle /\ GenIdle /\ VfyIdle /\ VmIdle /\ HarnessIdle /\ WaitIdle /\ ResIdle /\ ImgIdle /\ UnzipIdle
        \/ JobsIdle /\ ProxyIdle /\ RelayIdle /\ GceIdle /\ IdIdle /\ UpdInit /\ GenIdle /\ VfyIdle /\ VmIdle /\ HarnessIdle /\ WaitIdle /\ ResIdle /\ ImgIdle /\ UnzipIdle
        \/ JobsIdle /\ ProxyIdle /\ RelayIdle /\ GceIdle /\ IdIdle /\ UpdIdle /\ GenInit /\ VfyIdle /\ VmIdle /\ HarnessIdle /\ WaitIdle /\ ResIdle /\ ImgIdle /\ UnzipIdle
        \/ JobsIdle /\ ProxyIdle /\ RelayIdle /\ GceIdle /\ IdIdle /\ UpdIdle /\ GenIdle /\ VfyInit /\ VmIdle /\ HarnessIdle /\ WaitIdle /\ ResIdle /\ ImgIdle /\ UnzipIdle
        \/ JobsIdle /\ ProxyIdle /\ RelayIdle /\ GceIdle /\ IdIdle /\ UpdIdle /\ GenIdle /\ VfyIdle /\ VmInit /\ HarnessIdle /\ WaitIdle /\ ResIdle /\ ImgIdle /\ UnzipIdle
        \/ JobsInit /\ ProxyIdle /\ RelayIdle /\ GceIdle /\ IdIdle /\ UpdIdle /\ GenIdle /\ VfyIdle /\ VmIdle /\ HarnessInit /\ WaitIdle /\ ResIdle /\ ImgIdle /\ UnzipIdle
        \/ JobsIdle /\ ProxyIdle /\ RelayIdle /\ GceIdle /\ IdIdle /\ UpdIdle /\ GenIdle /\ VfyIdle /\ VmIdle /\ HarnessIdle /\ WaitInit /\ ResIdle /\ ImgIdle /\ UnzipIdle
        \/ JobsIdle /\ ProxyIdle /\ RelayIdle /\ GceIdle /\ IdIdle /\ UpdIdle /\ GenIdle /\ VfyIdle /\ VmIdle /\ HarnessIdle /\ WaitIdle /\ ResInit /\ ImgIdle /\ UnzipIdle
        \/ JobsIdle /\ ProxyIdle /\ RelayIdle /\ GceIdle /\ IdIdle /\ UpdIdle /\ GenIdle /\ VfyIdle /\ VmIdle /\ HarnessIdle /\ WaitIdle /\ ResIdle /\ ImgInit /\ UnzipIdle
        \/ JobsIdle /\ ProxyIdle /\ RelayIdle /\ GceIdle /\ IdIdle /\ UpdIdle /\ GenIdle /\ VfyIdle /\ VmIdle /\ HarnessIdle /\ WaitIdle /\ ResIdle /\ ImgIdle /\ UnzipInit

Next == JobsNext \/ ProxyNext \/ RelayNext \/ InterruptNext \/ GceNext
        \/ IdNext \/ UpdNext \/ GenNext \/ VfyNext \/ VmNext \/ HarnessNext
        \/ WaitNext \/ ResNext \/ ImgNext
        \/ UnzipNext

\* Every component.
Spec == Init /\ [][Next]_vars

\* RunParallelJobs alone.
JobsSpecInit == JobsInit /\ ProxyIdle /\ RelayIdle /\ GceIdle /\ IdIdle /\ UpdIdle /\ GenIdle /\ VfyIdle /\ VmIdle /\ HarnessIdle /\ WaitIdle /\ ResIdle /\ ImgIdle /\ UnzipIdle

JobsSpec == JobsSpecInit /\ [][JobsNext]_vars

\* RunParallelJobs under the scheduling the operating system guarantees: the
\* calling process and every job process keep running, and time passes.  A
\* job whose function never terminates takes no step of its own.
FairJobsSpec ==
  /\ JobsSpec
  /\ WF_vars(MainStep)
  /\ WF_vars(JobStep)
  /\ WF_vars(Tick)

\* The proxy alone.
ProxySpecInit == JobsIdle /\ ProxyInit /\ RelayIdle /\ GceIdle /\ IdIdle /\ UpdIdle /\ GenIdle /\ VfyIdle /\ VmIdle /\ HarnessIdle /\ WaitIdle /\ ResIdle /\ ImgIdle /\ UnzipIdle

ProxySpec == ProxySpecInit /\ [][ProxyNext]_vars

\* The proxy under the scheduling of the interpreter's threads: the calling
\* thread and the serving thread both keep running.
FairProxySpec ==
  /\ ProxySpec
  /\ WF_vars(CallerStep)
  /\ WF_vars(ServerStep)

\* The connection handlers of a proxy with any filter.
RelaySpecInit == JobsIdle /\ ProxyIdle /\ RelayInit /\ GceIdle /\ IdIdle /\ UpdIdle /\ GenIdle /\ VfyIdle /\ VmIdle /\ HarnessIdle /\ WaitIdle /\ ResIdle /\ ImgIdle /\ UnzipIdle

RelaySpec == RelaySpecInit /\ [][RelayNext]_vars

\* The connection handlers of the proxy of testInterruptedUpdate.
InterruptSpecInit == JobsIdle /\ ProxyIdle /\ InterruptInit /\ GceIdle /\ IdIdle /\ UpdIdle /\ GenIdle /\ VfyIdle /\ VmIdle /\ HarnessIdle /\ WaitIdle /\ ResIdle /\ ImgIdle /\ UnzipIdle

InterruptSpec == InterruptSpecInit /\ [][InterruptNext]_vars

\* One GCEAUWorker: UpdateImage calls, then CleanUp.
GceSpecInit == JobsIdle /\ ProxyIdle /\ RelayIdle /\ GceInit /\ IdIdle /\ UpdIdle /\ GenIdle /\ VfyIdle /\ VmIdle /\ HarnessIdle /\ WaitIdle /\ ResIdle /\ ImgIdle /\ UnzipIdle

GceSpec == GceSpecInit /\ [][GceNext]_vars

\* GenerateUpdateId and UpdatePayload.__str__ on every pair of updates.
IdSpecInit == JobsIdle /\ ProxyIdle /\ RelayIdle /\ GceIdle /\ IdInit /\ UpdIdle /\ GenIdle /\ VfyIdle /\ VmIdle /\ HarnessIdle /\ WaitIdle /\ ResIdle /\ ImgIdle /\ UnzipIdle

IdSpec == IdSpecInit /\ [][IdNext]_vars

\* One UpdateImage or UpdateUsingPayload call on a VM or device worker.
UpdSpecInit == JobsIdle /\ ProxyIdle /\ RelayIdle /\ GceIdle /\ IdIdle /\ UpdInit /\ GenIdle /\ VfyIdle /\ VmIdle /\ HarnessIdle /\ WaitIdle /\ ResIdle /\ ImgIdle /\ UnzipIdle

UpdSpec == UpdSpecInit /\ [][UpdNext]_vars

\* One run of main of cros_generate_test_payloads.py from GeneratePayloads on.
GenSpecInit == JobsIdle /\ ProxyIdle /\ RelayIdle /\ GceIdle /\ IdIdle /\ UpdIdle /\ GenInit /\ VfyIdle /\ VmIdle /\ HarnessIdle /\ WaitIdle /\ ResIdle /\ ImgIdle /\ UnzipIdle

GenSpec == GenSpecInit /\ [][GenNext]_vars

\* One call of VerifyImage on a worker of any class.
VfySpecInit == JobsIdle /\ ProxyIdle /\ RelayIdle /\ GceIdle /\ IdIdle /\ UpdIdle /\ GenIdle /\ VfyInit /\ VmIdle /\ HarnessIdle /\ WaitIdle /\ ResIdle /\ ImgIdle /\ UnzipIdle

VfySpec == VfySpecInit /\ [][VfyNext]_vars

\* The scenarios of the VM workers that run in parallel.
VmSpecInit == JobsIdle /\ ProxyIdle /\ RelayIdle /\ GceIdle /\ IdIdle /\ UpdIdle /\ GenIdle /\ VfyIdle /\ VmInit /\ HarnessIdle /\ WaitIdle /\ ResIdle /\ ImgIdle /\ UnzipIdle

VmSpec == VmSpecInit /\ [][VmNext]_vars

\* A proxy from its construction on, with the handler threads of the
\* connections it accepts.
ServeSpecInit == JobsIdle /\ ServeInit /\ GceIdle /\ IdIdle /\ UpdIdle /\ GenIdle /\ VfyIdle /\ VmIdle /\ HarnessIdle /\ WaitIdle /\ ResIdle /\ ImgIdle /\ UnzipIdle

ServeSpec == ServeSpecInit /\ [][ServeNext]_vars

\* _RunTestsInParallel: the two lists it gives RunParallelJobs are built in
\* one loop (lines 173-177) over the suite and have the same length.
HarnessSpecInit == JobsInit /\ Len(jobs) <= MaxSuite /\ jobs_args = Len(jobs) /\ ProxyIdle /\ RelayIdle /\ GceIdle /\ IdIdle /\ UpdIdle /\ GenIdle /\ VfyIdle /\ VmIdle /\ HarnessInit /\ WaitIdle /\ ResIdle /\ ImgIdle /\ UnzipIdle

HarnessSpec == HarnessSpecInit /\ [][HarnessNext]_vars

\* One call of _WaitForOperation.
WaitSpecInit == JobsIdle /\ ProxyIdle /\ RelayIdle /\ GceIdle /\ IdIdle /\ UpdIdle /\ GenIdle /\ VfyIdle /\ VmIdle /\ HarnessIdle /\ WaitInit /\ ResIdle /\ ImgIdle /\ UnzipIdle

WaitSpec == WaitSpecInit /\ [][WaitNext]_vars

\* One worker through the tests that use it.
ResSpecInit == JobsIdle /\ ProxyIdle /\ RelayIdle /\ GceIdle /\ IdIdle /\ UpdIdle /\ GenIdle /\ VfyIdle /\ VmIdle /\ HarnessIdle /\ WaitIdle /\ ResInit /\ ImgIdle /\ UnzipIdle

ResSpec == ResSpecInit /\ [][ResNext]_vars

\* GetLatestImage alone.
ImgSpecInit == JobsIdle /\ ProxyIdle /\ RelayIdle /\ GceIdle /\ IdIdle /\ UpdIdle /\ GenIdle /\ VfyIdle /\ VmIdle /\ HarnessIdle /\ WaitIdle /\ ResIdle /\ ImgInit /\ UnzipIdle

ImgSpec == ImgSpecInit /\ [][ImgNext]_vars

\* UnzipImage alone.
UnzipSpecInit == JobsIdle /\ ProxyIdle /\ RelayIdle /\ GceIdle /\ IdIdle /\ UpdIdle /\ GenIdle /\ VfyIdle /\ VmIdle /\ HarnessIdle /\ WaitIdle /\ ResIdle /\ ImgIdle /\ UnzipInit

UnzipSpec == UnzipSpecInit /\ [][UnzipNext]_vars

\* =========================================================================
\*                     properties
\* =========================================================================

\* The jobs that hold a permit and may still be executing their target.
Running == {j \in DOMAIN parallel_jobs : parallel_jobs[j] \in {"target", "wrapped"}}

\* The job processes that are alive.
Alive == {j \in DOMAIN parallel_jobs : is_alive(j)}

\* What job j leaves on its queue: its value, or None when it raises.
Posted(j) == IF jobs[j] = "raise" THEN NoneValue ELSE JobResult(j)

\* Every job of a non-empty batch has run its target and has exited.
AllExited ==
  /\ Len(jobs) > 0
  /\ DOMAIN parallel_jobs = JobIds
  /\ \A j \in JobIds : parallel_jobs[j] = "exited"

\* Job j's output has been read by the list comprehension of line 145.
Read(j) == mainpc \in {"collect", "returned"} /\ j < idx

\* C1: in every reachable state, the number of jobs that have been started and
\* have not yet released their permit is at most number_of_simultaneous_jobs.
C1_RunningAtMostK == Cardinality(Running) <= number_of_simultaneous_jobs

\* C1 witness: the pool is full (k jobs hold a permit, none is free) while the
\* caller waits to start a further job of a batch larger than k.
C1_Witness ==
  /\ mainpc = "acquire"
  /\ Len(jobs) > number_of_simultaneous_jobs
  /\ job_start_semaphore = 0
  /\ Cardinality(Running) = number_of_simultaneous_jobs

\* C2: when RunParallelJobs returns, the list has one element per job and
\* element i is what job i produced (its value, or None when it raised).
C2_ResultsInSubmissionOrder ==
  mainpc = "returned" =>
    /\ Len(results) = Len(jobs)
    /\ \A i \in JobIds : results[i] = Posted(i)

\* C2 witness: RunParallelJobs has returned the results of a batch whose jobs
\* finished in another order than they were submitted in.
C2_Witness ==
  /\ mainpc = "returned"
  /\ Len(jobs) >= 2
  /\ \E i \in JobIds : finished[i] # i
  /\ \E i \in JobIds : results[i] = JobResult(i)

\* C3 (as claimed): a batch that holds a job which never terminates makes
\* RunParallelJobs raise ParallelJobTimeoutError eventually.
C3_EventuallyTimeout ==
  (Len(jobs) = jobs_args /\ \E j \in JobIds : jobs[j] = "hang")
    => <>(mainpc = "timeout_raised")

C5_PermitReleasedOnce ==
  /\ \A j \in DOMAIN parallel_jobs :
       releases[j] = (IF parallel_jobs[j] \in {"released", "exited"}
                        THEN 1
                        ELSE IF parallel_jobs[j] = "terminated"
                          THEN releases[j] ELSE 0)
  /\ \A j \in DOMAIN parallel_jobs : releases[j] <= 1
  /\ AllExited => job_start_semaphore = number_of_simultaneous_jobs
  /\ (mainpc = "acquire" /\ job_start_semaphore = 0)
       => Cardinality(Running) = number_of_simultaneous_jobs

\* C5 witness: every job of a batch larger than the pool has exited, one of
\* them by raising, and the semaphore is full again.
C5_Witness ==
  /\ Len(jobs) > number_of_simultaneous_jobs
  /\ AllExited
  /\ \E j \in JobIds : raised[j]
  /\ job_start_semaphore = number_of_simultaneous_jobs

\* C6: a job never has more than one value on its queue; from the moment its
\* wrapper is through until the value is read, the queue holds exactly the
\* value the function returned, or None if it raised; and when the results
\* are collected the queue being read is never empty.
C6_OneValuePerJob ==
  /\ \A j \in DOMAIN parallel_jobs :
       /\ Len(output_array[j]) <= 1
       /\ (parallel_jobs[j] \in {"wrapped", "released", "exited"} /\ ~Read(j))
            => output_array[j] = <<Posted(j)>>
       /\ raised[j] => jobs[j] = "raise"
  /\ (mainpc = "collect" /\ idx <= Len(jobs)) => output_array[idx] # <<>>

\* C6 witness: the results are about to be collected from a batch of which
\* one job raised and posted None and another returned and posted its value.
C6_Witness ==
  /\ mainpc = "collect"
  /\ idx = 1
  /\ \E j \in JobIds : raised[j] /\ output_array[j] = <<NoneValue>>
  /\ \E j \in JobIds : ~raised[j] /\ output_array[j] = <<JobResult(j)>>

\* C7 (as claimed): at every instant the number of live job processes is at
\* most number_of_simultaneous_jobs.
C7_AliveAtMostK == Cardinality(Alive) <= number_of_simultaneous_jobs

\* C8 (as claimed): the clock of the batch is started before the first job
\* process is started.
C8_ClockStartsBeforeFirstJob ==
  (\E j \in DOMAIN parallel_jobs : parallel_jobs[j] # "created") => clock_started

\* shutdown() has returned.
ShutdownReturned == callerpc \in {"stopped", "returned"}

\* C9: shutdown, called after serve_forever_in_thread has returned, returns
\* eventually; it has returned only when the serve_forever loop is left and
\* the thread is through; and from then on no connection is accepted.
C9_ShutdownWaitsForLoop ==
  /\ [](ShutdownReturned => srvpc = "exited")
  /\ [][ShutdownReturned => accepted' = accepted]_vars
  /\ (callerpc = "shutdown") ~> ShutdownReturned

\* C9 witness: shutdown has returned, the serving thread is through, a
\* connection was accepted before and another one made since waits unaccepted.
C9_Witness ==
  /\ callerpc = "stopped"
  /\ srvpc = "exited"
  /\ accepted > 0
  /\ backlog > 0

\* C10 (as claimed): once shutdown() has returned the proxy does not hold its
\* listening port, and a new proxy constructed on port_in binds it.
C10_PortFreeAfterShutdown ==
  ShutdownReturned => (~port_bound /\ rebind # "error")

\* The connections for which a filter call has returned None.
Vetoed == {c \in Conns : vetoed[c] # "no"}

\* The connections that have carried more than the threshold outbound.
OverThreshold == {c \in Conns : fwd_out[c] > Threshold}

\* C11 (as claimed): with the InterruptionFilter shared by the connections of
\* a proxy, never more than 3 connections are vetoed, and exactly 3 are once
\* three connections have each carried more than the threshold outbound.
C11_AtMostThreeVetoed ==
  /\ Cardinality(Vetoed) <= CloseLimit
  /\ Cardinality(OverThreshold) >= CloseLimit => Cardinality(Vetoed) = CloseLimit

\* C12: once a filter call has returned None for a connection, its handler is
\* at the test that leaves the loop or past it, with both sockets closed when
\* it is through; and from the veto on, the vetoed chunk included, nothing is
\* forwarded on that connection in either direction.
C12_VetoSeversConnection ==
  /\ [](\A c \in Conns : vetoed[c] # "no" =>
          \/ hpc[c] \in {"in_test", "out_test"} /\ data[c] = "none"
          \/ hpc[c] = "close"
          \/ hpc[c] = "closed" /\ open_socks[c] = {})
  /\ [][\A c \in Conns : vetoed'[c] # "no" =>
          fwd_in'[c] = fwd_in[c] /\ fwd_out'[c] = fwd_out[c]]_vars

\* C12 witness: a connection that had forwarded the request to the server
\* had a chunk of the answer vetoed, and both its sockets are closed.
C12_Witness ==
  \E c \in Conns :
    /\ vetoed[c] = "chunk"
    /\ hpc[c] = "closed"
    /\ open_socks[c] = {}
    /\ fwd_in[c] > 0
    /\ fwd_out[c] = 0
    /\ out_left[c] = 0

\* C13 (as claimed): when CleanUp has returned after any number of
\* UpdateImage calls, the worker tracks no background process, none is
\* running, and no tarball, image or instance that the calls created or were
\* creating is left.
C13_CleanUpLeavesNothing ==
  gpc = "cleaned" =>
    /\ bg_delete_processes = <<>>
    /\ \A p \in DOMAIN procs : ~procs[p].alive
    /\ gcs = {}
    /\ images = {}
    /\ vms = {}

\* C14: when UpdateImage has returned, the tarball, the image and the
\* instances the worker tracks are the ones this call created, one instance
\* per test target and none of a name an earlier call used, and a started
\* background process holds everything the worker tracked before the call.
C14_UpdateImageTracksOnlyNew ==
  gpc = "returned" =>
    /\ made.tarballs = {tarball_remote}
    /\ made.images = {image}
    /\ made.vms = Range(instances)
    /\ Len(instances) = tests
    /\ Cardinality(Range(instances)) = tests
    /\ tarball_remote \notin made_earlier.tarballs
    /\ image \notin made_earlier.images
    /\ Range(instances) \cap made_earlier.vms = {}
    /\ \E p \in DOMAIN procs : procs[p].tracked = tracked_before

\* C14 witness: a second UpdateImage has returned, made while the worker
\* tracked the tarball, the image and two instances of the first.
C14_Witness ==
  /\ gpc = "returned"
  /\ gcalls = 2
  /\ tracked_before.tarball # 0
  /\ tracked_before.image # 0
  /\ Cardinality(tracked_before.instances) = 2

\* C18 (as claimed): the identifiers GenerateUpdateId gives two updates are
\* equal exactly when target, base, key and for_vm are all equal, and so are
\* the strings that UpdatePayload's equality and hash compare.
C18_UpdateIdInjective ==
  idpc = "generated" =>
    /\ update_id[1] = update_id[2] <=> first = second
    /\ payload_str[1] = payload_str[2] <=> first = second

\* C15 (as claimed): whenever UpdateImage or UpdateUsingPayload fails, the
\* logs and the local artifacts are in the failure directory by the time the
\* exception leaves the call.
C15_FailureCapturedBeforeRaise ==
  wpc = "raised" => {"logs", "image"} \subseteq fail_directory

\* The non-empty pieces of the update command's output.
Substrings(s) ==
  {SubSeq(s, i, j) : i \in 1..Len(s), j \in 1..Len(s)} \ {<<>>}

\* C16 (as claimed): when the update command exited with a code other than
\* 0, every piece of its output is found in the text of the UpdateException
\* that leaves the call.
C16_ExceptionCarriesOutput ==
  (wpc = "raised" /\ cmd_ran /\ returncode # 0) =>
    \A expected_msg \in Substrings(tool_output) : Found(expected_msg, err)

\* C17: once UpdateImage is past AppendUpdateFlags, either the cache holds
\* the identifier of the update and the --update_url is the devserver's URL
\* of that entry's path, or it does not and the call has raised without
\* running the update command.
C17_MissRaisesHitUsesEntry ==
  (method = "UpdateImage"
     /\ wpc \notin {"PerformUpdate", "start", "AppendUpdateFlags"}) =>
    LET wanted == GenerateUpdateId(update.target, update.base, update.key,
                                   worker_class = "VMAUWorker")
    IN IF wanted \in DOMAIN update_cache
         THEN update_url = [port |-> IF proxy_port = 0 THEN 8080 ELSE proxy_port,
                            sub_dir |-> update_cache[wanted]]
         ELSE wpc = "raised" /\ ~cmd_ran /\ update_url = NoUrl

\* C17 witness: UpdateImage of a VM worker has raised on a cache that holds
\* only the payload for a device.
C17_Witness ==
  /\ method = "UpdateImage"
  /\ worker_class = "VMAUWorker"
  /\ wpc = "raised"
  /\ ~cmd_ran
  /\ err.type = "UpdateException"
  /\ DOMAIN update_cache =
       {GenerateUpdateId(update.target, update.base, update.key, FALSE)}

\* The lines of a log that name a pregenerated update.
KeyLinesOf(log) == {k \in 1..Len(log) : IsKeyLine(log[k])}

\* The first of them.
FirstKeyLine(log) ==
  log[CHOOSE k \in KeyLinesOf(log) : \A j \in KeyLinesOf(log) : k <= j]

C20_NoTotalLineIsParseError ==
  (/\ vpc \in {"compare", "raised", "returned"}
   /\ verifier = "RealAUWorker"
   /\ \A k \in 1..Len(test_output) : ~StartsWithTotalPass(test_output[k]))
    => /\ vpc = "raised"
       /\ verify_err \notin {"None", "AssertionError"}
       /\ percent_passed = <<>>
       /\ returned_percent = <<>>

\* The scenario is reported as failed: unittest.fail was called, or
\* VerifyImage returned False to the assertTrue of the scenario.
ScenarioFailed == verify_err = "AssertionError" \/ verified = <<FALSE>>

\* The verification passed: VerifyImage returned the percentage or True.
ScenarioPassed ==
  /\ vpc = "returned"
  /\ verify_err = "None"
  /\ returned_percent # <<>> \/ verified = <<TRUE>>

\* The lines of the report that have the form 'Total PASS: m/n (p%)'.
WellFormedTotals(lines) ==
  {k \in 1..Len(lines) : \E p \in Percents : lines[k] = TotalLine(p)}

\* The percentage of the first of them.
Measured(lines) ==
  LET k == CHOOSE j \in WellFormedTotals(lines) :
             \A m \in WellFormedTotals(lines) : j <= m
      p == CHOOSE q \in Percents : lines[k] = TotalLine(q)
  IN PyInt(p)

\* C21 (as claimed): once VerifyImage of a worker of any class is over on a
\* report whose only lines with 'Total PASS:' have the form, the scenario is
\* reported as failed if the measured percentage is under the percentage
\* required, and has passed if it is not.
C21_FailedExactlyBelowThreshold ==
  (/\ vpc \in {"raised", "returned"}
   /\ WellFormedTotals(test_output) # {}
   /\ \A k \in 1..Len(test_output) :
        StartsWithTotalPass(test_output[k]) =>
          k \in WellFormedTotals(test_output))
    => IF Measured(test_output) < percent_required_to_pass
         THEN ScenarioFailed
         ELSE ScenarioPassed

\* The lines of the report that start with 'Total PASS:'.
TotalsOf(lines) == {k \in 1..Len(lines) : StartsWithTotalPass(lines[k])}

C23_CleanUpRemovesPidFile ==
  \A w \in DOMAIN vmpc : vmpc[w] = "cleaned" => ~kvm_pid_file[w]

\* C30: once PrepareBase has returned to a scenario, what it returned is the
\* shared VM image next to the base image, and every image path the worker
\* gives to an update or a test command is a temporary copy that no other
\* worker holds or has used.
C30_PrivateCopyUsedSharedReturned ==
  \A w \in DOMAIN vmpc :
    original_image_path[w] # NoPath =>
      /\ original_image_path[w] \in {PrepareVMBase(b) : b \in BOOLEAN}
      /\ vmpc[w] = "prepared" => vm_image_path[w].dir = "tmp"
      /\ \A path \in used_image_paths[w] :
           /\ path.dir = "tmp"
           /\ \A v \in DOMAIN vmpc \ {w} :
                path # vm_image_path[v] /\ path \notin used_image_paths[v]

\* C30 witness: two workers were prepared from the same shared image and
\* each has run a command on its VM.
C30_Witness ==
  /\ DOMAIN vmpc = 1..2
  /\ original_image_path[1] = PrepareVMBase(FALSE)
  /\ original_image_path[2] = PrepareVMBase(FALSE)
  /\ used_image_paths[1] # {}
  /\ used_image_paths[2] # {}

\* C24: while port_in is held by somebody else the proxy never holds a
\* listening socket, its serve_forever thread is never started and nothing is
\* accepted; the constructor, once called, has left with the bind error, and
\* the caller stays there.
C24_BindErrorIsFinal ==
  port_taken =>
    /\ callerpc \in {"init", "bind_error"}
    /\ ~port_bound
    /\ srvpc = "idle"
    /\ ~serving
    /\ ~is_started
    /\ accepted = 0

\* C24 witness: the constructor was called on a port that was taken and has
\* raised.
C24_Witness == port_taken /\ callerpc = "bind_error"

\* C25: when jobs and jobs_args differ in length, RunParallelJobs goes no
\* further than its assert: no ParallelJob and no queue is made, the
\* semaphore is not made and nothing is acquired from it, no job has run.
C25_LengthMismatchFailsFirst ==
  Len(jobs) # jobs_args =>
    /\ mainpc \in {"assert", "assert_failed"}
    /\ parallel_jobs = <<>>
    /\ output_array = <<>>
    /\ job_start_semaphore = 0
    /\ idx = 0
    /\ finished = <<>>
    /\ results = <<>>

\* C25 witness: a batch of two jobs with three argument lists has failed
\* the assert.
C25_Witness ==
  /\ mainpc = "assert_failed"
  /\ Len(jobs) = 2
  /\ jobs_args = 3

\* C26 (as claimed): a connection the InterruptionFilter has vetoed has had
\* more than the threshold of outbound data passed on through it, however
\* many connections the filter serves at once.
C26_VetoOnlyAfterOwnTraffic ==
  filter_kind = "InterruptionFilter" =>
    \A c \in Conns : vetoed[c] # "no" => fwd_out[c] > Threshold

\* The accept loop can take its next step.
LoopCanStep ==
  /\ srvpc = "l152" => ENABLED Select
  /\ srvpc = "l154" => ENABLED HandleRequest
  /\ Len(hpc) < accepted => ENABLED SpawnHandler

\* The handler of connection d can take its next step.
HandlerCanStep(d) ==
  /\ hpc[d] = "new" => ENABLED HandlerSetup(d)
  /\ hpc[d] = "select" => ENABLED RecvIn(d) /\ ENABLED RecvOut(d)
  /\ hpc[d] = "InBound" => ENABLED InBound(d)
  /\ hpc[d] = "in_test" => ENABLED InSend(d)
  /\ hpc[d] = "OutBound" => ENABLED OutBoundAny(d)
  /\ hpc[d] = "out_test" => ENABLED OutSend(d)
  /\ hpc[d] = "close" => ENABLED CloseSockets(d)

\* C27: while the handler of a connection is in a call of the filter, no
\* step forwards data of that connection in either direction or reads more
\* of it, and the accept loop and every other handler can take their next
\* step.
C27_BlockedFilterBlocksOnlyItsConnection ==
  /\ []((\E c \in Conns : Blocked(c)) => LoopCanStep)
  /\ [](\A d \in Conns :
          (\E c \in Conns \ {d} : Blocked(c)) => HandlerCanStep(d))
  /\ [][\A c \in Conns :
          (Blocked(c) /\ Blocked(c)') =>
            /\ fwd_in'[c] = fwd_in[c]
            /\ fwd_out'[c] = fwd_out[c]
            /\ in_left'[c] = in_left[c]
            /\ out_left'[c] = out_left[c]]_vars
  /\ [][\A c \in Conns :
          Blocked(c) => fwd_in'[c] = fwd_in[c] /\ fwd_out'[c] = fwd_out[c]]_vars

\* C27 witness: the first connection is in a call of the filter with nothing
\* of it forwarded, the second has had its chunk sent on to the server, and
\* the accept loop is running.
C27_Witness ==
  /\ Len(hpc) = 2
  /\ Blocked(1)
  /\ fwd_in[1] = 0
  /\ fwd_out[1] = 0
  /\ fwd_in[2] = 1
  /\ hpc[2] = "select"
  /\ srvpc \in {"l147", "l152", "l154"}

C29_DedicatedInstancePerTest ==
  [][(gpc = "RunParallelSteps" /\ gpc' \in {"returned", "raised"}) =>
       /\ DOMAIN instances' = 1..tests
       /\ \A i, j \in DOMAIN instances' :
            i # j => instances'[i] # instances'[j]]_vars

\* The serve_forever thread is in its while loop (lines 147-154).
AcceptLoopRunning == srvpc \in {"l147", "l152", "l154"}

\* C31: while PerformUpdate runs the accept loop is running with __serving
\* set; whichever way PerformUpdate has ended, AttemptUpdateWithFilter is
\* left only after shutdown() was called and the accept loop has ended; and
\* once PerformUpdate has started the accept loop does end.
C31_ProxyServesUpdateAndIsShutDown ==
  /\ [](callerpc = "update" => (AcceptLoopRunning /\ serving /\ is_started))
  /\ [](callerpc = "returned" => (srvpc = "exited" /\ ~serving))
  /\ [][(callerpc = "update" /\ callerpc' # "update") =>
          callerpc' = "shutdown"]_vars
  /\ (callerpc = "update") ~> (srvpc = "exited")

\* C31 witness: PerformUpdate has raised after a connection was accepted,
\* the accept loop has ended and AttemptUpdateWithFilter has been left.
C31_Witness ==
  /\ callerpc = "returned"
  /\ update_raised
  /\ accepted > 0
  /\ srvpc = "exited"

\* C32: _RunTestsInParallel returns only when every test's job has posted a
\* result and every result says wasSuccessful(); once RunParallelJobs has
\* returned, a None in a slot or a result that is not successful makes the
\* harness die.
C32_HarnessFinishesOnlyOnAllSuccess ==
  /\ harnesspc = "finished" =>
       /\ Len(results) = Len(jobs)
       /\ \A j \in DOMAIN jobs :
            /\ jobs[j] = "ret"
            /\ results[j] = JobResult(j)
            /\ was_successful[j]
  /\ (harnesspc \in {"finished", "died"} /\
      \E j \in DOMAIN jobs : jobs[j] = "raise" \/ ~was_successful[j])
       => harnesspc = "died"

\* C32 witness: one test passed and the runner of the other crashed; the
\* batch returned with None in the second slot and the harness died.
C32_Witness ==
  /\ harnesspc = "died"
  /\ Len(jobs) = 2
  /\ was_successful[1]
  /\ jobs[2] = "raise"
  /\ results = <<JobResult(1), NoneValue>>

\* C33: when the timeout is up before the operation is DONE,
\* _WaitForOperation calls the timeout_handler it was given and then raises
\* gce.Error.
C33_TimeoutCallsHandlerThenRaises ==
  [][(waitpc = "except" /\ waitpc' # "except" /\ timeout_handler # "None") =>
       (handler_called' /\ waitpc' = "raised" /\ wait_result' = "Error")]_vars

\* C34: the n-th call of GetNextResultsPath since Initialize has returned
\* the two directories of the test prefixed with n, no two calls since
\* Initialize have returned the same results directory or the same failure
\* directory, the counter grows by one with every call, and Initialize sets
\* it to 0.
C34_NthCallGetsNthDirectory ==
  /\ [](\A n \in DOMAIN returned_paths :
          /\ returned_paths[n].results_dir[1] = "all"
          /\ returned_paths[n].results_dir[2] = test_name
          /\ returned_paths[n].results_dir[3][1] = n
          /\ returned_paths[n].fail_dir[1] = "failed"
          /\ returned_paths[n].fail_dir[2] = test_name
          /\ returned_paths[n].fail_dir[3] = returned_paths[n].results_dir[3])
  /\ [](\A m, n \in DOMAIN returned_paths :
          m # n =>
            /\ returned_paths[m].results_dir # returned_paths[n].results_dir
            /\ returned_paths[m].fail_dir # returned_paths[n].fail_dir)
  /\ [](test_name # "None" => results_count = Len(returned_paths))
  /\ [][\/ results_count' = results_count + 1
        \/ results_count' = 0 /\ returned_paths' = <<>>]_vars

\* C34 witness: a second test has initialized the worker after the first
\* one's calls, and has asked twice for a directory with the same label.
C34_Witness ==
  /\ path_calls = 5
  /\ Len(returned_paths) = 2
  /\ returned_paths[1].results_dir[3] = <<1, "update">>
  /\ returned_paths[2].results_dir[3] = <<2, "update">>
  /\ \E d \in made_dirs : d[2] # test_name


\* C35: the identifier PerformUpdate has looked up in the cache is the one
\* of the target image with the given source image as base if delta updates
\* are enabled and with no base otherwise, with the given key, and for a VM
\* exactly when the worker is a VMAUWorker.
C35_PerformUpdateResolvesPayload ==
  (method = "UpdateImage" /\ looked_up # None) =>
    looked_up =
      GenerateUpdateId(update.target,
                       IF use_delta_updates THEN src_image_path ELSE <<>>,
                       update.key,
                       worker_class = "VMAUWorker")

\* C35 witness: a VMAUWorker without delta updates, given a source image and
\* a key, has looked up the identifier of the full update.
C35_Witness ==
  /\ method = "UpdateImage"
  /\ worker_class = "VMAUWorker"
  /\ ~use_delta_updates
  /\ Truthy(src_image_path)
  /\ Truthy(update.key)
  /\ looked_up = update.target \o <<"+">> \o update.key

\* C36: when RunParallelJobs has returned, the result list has as many
\* entries as jobs has; and the empty batch, given an empty jobs_args and
\* not timed out, ends in no error.
C36_ResultPerJobAlsoForEmptyBatch ==
  /\ (mainpc = "returned") => (Len(results) = Len(jobs))
  /\ (Len(jobs) = 0 /\ jobs_args = 0 /\ ~expired) =>
       mainpc \notin {"assert_failed", "timeout_raised", "unbound_error"}

\* C39: the step of GetCurrentActiveCount that finds a job alive hands the
\* monitor loop the first job of the list that is alive.
C39_JoinsFirstAliveJob ==
  [][(mainpc = "count" /\ mainpc' = "join") =>
       /\ active_job' \in JobIds
       /\ is_alive(active_job')
       /\ \A j \in JobIds : (j < active_job') => ~is_alive(j)]_vars

\* The last number and the build number of a versioned entry name, the build
\* number being -1 for a name without one.
NumbersOf(name) ==
  CHOOSE p \in (0..MaxVersion) \X (-1..MaxBuild) :
    name = IF p[2] = -1 THEN ArchiveName(p[1]) ELSE BuildName(p[1], p[2])

\* Entry name f is of a lower version than g: a lower last number, or the
\* same one and no build number or a lower one.
Older(f, g) ==
  \/ NumbersOf(f)[1] < NumbersOf(g)[1]
  \/ NumbersOf(f)[1] = NumbersOf(g)[1] /\ NumbersOf(f)[2] < NumbersOf(g)[2]

\* The entries GetLatestImage may return: named R<n>-a.b.c..., of a version
\* lower than the target's, with an image.zip that is a valid zip.
Candidates ==
  {f \in DOMAIN archive \cap VersionedNames :
     Older(f, target_version) /\ archive[f] = "valid"}

\* C37: GetLatestImage returns the candidate of the greatest version, and
\* None when there is none; what it returns is never the target version or a
\* newer one.
C37_LatestIsGreatestValidOlderEntry ==
  (imgpc = "returned") =>
    IF Candidates = {}
      THEN latest_image = NoImage
      ELSE /\ latest_image \in Candidates
           /\ \A g \in Candidates : ~Older(latest_image, g)
           /\ latest_image # target_version
           /\ ~Older(target_version, latest_image)

\* C37 witness: the archive holds the target version itself, a lower version
\* whose zip is corrupt and a still lower one whose zip is valid, which has
\* been returned.
C37_Witness ==
  /\ imgpc = "returned"
  /\ target_version \in DOMAIN archive
  /\ archive[target_version] = "valid"
  /\ latest_image \in Candidates
  /\ \E f \in DOMAIN archive \cap VersionedNames :
       /\ Older(latest_image, f)
       /\ Older(f, target_version)
       /\ archive[f] = "corrupt"

\* C38: what UnzipImage returns is None when the image to extract is not in
\* the directory it has unzipped to, and the path of the image when it is.
C38_NoneWhenImageMissing ==
  (unzippc = "returned") =>
    image_returned = IF CachedImageExists THEN CachedImage(image_dir)
                                          ELSE NoImage
====
